---- MODULE Spec2Model ----
(***************************************************************************)
(* A model of CSVSqlHandler (src/src/csv_sql_handler.py) and of the part   *)
(* of the dashboard (src/streamlit_app.py) that drives it: the connection  *)
(* manager with lock retry and per-process fallback, the table loader, the *)
(* safety validator, the query executor and close().                       *)
(*                                                                         *)
(* SQL texts, error messages and file names are strings; the string        *)
(* operations of the code (upper, lower, strip, substring test, prefix and *)
(* suffix tests) are computed character by character on them.              *)
(*                                                                         *)
(* A call of the handler that makes several calls of the engine is a       *)
(* sequence of steps, one for every call of the engine: the other          *)
(* connections of the process run their statements between them.           *)
(***************************************************************************)
EXTENDS Integers, Sequences, FiniteSets, TLC

VARIABLES
    pc,                  \* position of the constructor: "start", "retrying", "fallback", "ready", "failed"
    attempt,             \* loop variable of the retry loop (1..5), 0 outside of it
    conn,                \* self.conn: "None", or the store file the handle was opened on
    connOpen,            \* whether the engine handle held by self.conn is open
    db_path,             \* self.db_path
    opens,               \* the calls of duckdb.connect so far: [path, outcome]
    sleepUnits,          \* total time slept, in units of 0.5 s
    releases,            \* number of calls of self.conn.close() on the engine handle
    raised,              \* whether the constructor let an exception escape
    tables,              \* the store: table identifier -> [columns, row_count]
    loadedTables,        \* the store as load_csv_files and the other
                         \* connections left it
    generated_sql,       \* st.session_state.generated_sql
    generated_sql_valid, \* st.session_state.generated_sql_valid
    candidate,           \* the candidate SQL text the validator is studied on
    file_paths,          \* the list of files the dashboard hands to load_csv_files
    frame,               \* the call of the handler in progress: its arguments,
                         \* its position and its local variables
    last                 \* what the last handler call was given, did and returned

vars == <<pc, attempt, conn, connOpen, db_path, opens, sleepUnits,
          releases, raised, tables, loadedTables, generated_sql,
          generated_sql_valid, candidate, file_paths, frame, last>>

connVars == <<pc, attempt, conn, connOpen, db_path, opens, sleepUnits,
              releases, raised>>

\* What a step of the handler leaves alone beside the connection.
sessionVars == <<generated_sql, generated_sql_valid, candidate, file_paths>>

(***************************************************************************)
(* Bounds of the model.                                                    *)
(***************************************************************************)
\* Largest row count of a table the model follows.
MaxRows == 3
\* Largest number of close() calls on one handler the model follows.
MaxCloses == 2
\* Largest number of whitespace characters put before, and after, a
\* candidate SQL text.
MaxPad == 1
\* Largest number of files in a list handed to load_csv_files.
MaxFiles == 2
\* Largest number of characters of a file name the table identifier is
\* derived from.
MaxName == 3

(***************************************************************************)
(* Strings.  A string here holds the characters of the Basic Multilingual  *)
(* Plane whose code point is below U+0100 or has a low byte of 0x80 or     *)
(* more, without the grave accent.  Where str.upper() or str.lower() gives *)
(* a character outside of them, the tables below write U+FFFD for it.      *)
(***************************************************************************)
None == "None"

CharAt(s, i) == SubSeq(s, i, i)

\* str.upper() of one character, for the 652 characters it changes: the
\* letters a-z, the small letters of Latin-1, Latin Extended, Greek,
\* Cyrillic, Armenian, Georgian and the other cased scripts, and the
\* characters that become two or three in capitals (the sharp s, the
\* ligatures, t with diaeresis).
UpperChar ==
    (   ("a" :> "A" @@ "b" :> "B" @@ "c" :> "C" @@ "d" :> "D")
     @@ ("e" :> "E" @@ "f" :> "F" @@ "g" :> "G" @@ "h" :> "H")
     @@ ("i" :> "I" @@ "j" :> "J" @@ "k" :> "K" @@ "l" :> "L")
     @@ ("m" :> "M" @@ "n" :> "N" @@ "o" :> "O" @@ "p" :> "P")
     @@ ("q" :> "Q" @@ "r" :> "R" @@ "s" :> "S" @@ "t" :> "T")
     @@ ("u" :> "U" @@ "v" :> "V" @@ "w" :> "W" @@ "x" :> "X")
     @@ ("y" :> "Y" @@ "z" :> "Z" @@ "µ" :> "Μ" @@ "ß" :> "SS")
     @@ ("à" :> "À" @@ "á" :> "Á" @@ "â" :> "Â" @@ "ã" :> "Ã")
     @@ ("ä" :> "Ä" @@ "å" :> "Å" @@ "æ" :> "Æ" @@ "ç" :> "Ç")
     @@ ("è" :> "È" @@ "é" :> "É" @@ "ê" :> "Ê" @@ "ë" :> "Ë")
     @@ ("ì" :> "Ì" @@ "í" :> "Í" @@ "î" :> "Î" @@ "ï" :> "Ï")
     @@ ("ð" :> "Ð" @@ "ñ" :> "Ñ" @@ "ò" :> "Ò" @@ "ó" :> "Ó")
     @@ ("ô" :> "Ô" @@ "õ" :> "Õ" @@ "ö" :> "Ö" @@ "ø" :> "Ø"))
 @@ (   ("ù" :> "Ù" @@ "ú" :> "Ú" @@ "û" :> "Û" @@ "ü" :> "Ü")
     @@ ("ý" :> "Ý" @@ "þ" :> "Þ" @@ "ÿ" :> "�" @@ "ƀ" :> "�")
     @@ ("ƃ" :> "Ƃ" @@ "ƅ" :> "Ƅ" @@ "ƈ" :> "Ƈ" @@ "ƌ" :> "Ƌ")
     @@ ("ƒ" :> "Ƒ" @@ "ƕ" :> "Ƕ" @@ "ƙ" :> "Ƙ" @@ "ƚ" :> "�")
     @@ ("ƞ" :> "�" @@ "ơ" :> "Ơ" @@ "ƣ" :> "Ƣ" @@ "ƥ" :> "Ƥ")
     @@ ("ƨ" :> "Ƨ" @@ "ƭ" :> "Ƭ" @@ "ư" :> "Ư" @@ "ƴ" :> "Ƴ")
     @@ ("ƶ" :> "Ƶ" @@ "ƹ" :> "Ƹ" @@ "ƽ" :> "Ƽ" @@ "ƿ" :> "Ƿ")
     @@ ("ǅ" :> "Ǆ" @@ "ǆ" :> "Ǆ" @@ "ǈ" :> "Ǉ" @@ "ǉ" :> "Ǉ")
     @@ ("ǋ" :> "Ǌ" @@ "ǌ" :> "Ǌ" @@ "ǎ" :> "Ǎ" @@ "ǐ" :> "Ǐ")
     @@ ("ǒ" :> "Ǒ" @@ "ǔ" :> "Ǔ" @@ "ǖ" :> "Ǖ" @@ "ǘ" :> "Ǘ")
     @@ ("ǚ" :> "Ǚ" @@ "ǜ" :> "Ǜ" @@ "ǝ" :> "Ǝ" @@ "ǟ" :> "Ǟ")
     @@ ("ǡ" :> "Ǡ" @@ "ǣ" :> "Ǣ" @@ "ǥ" :> "Ǥ" @@ "ǧ" :> "Ǧ")
     @@ ("ǩ" :> "Ǩ" @@ "ǫ" :> "Ǫ" @@ "ǭ" :> "Ǭ" @@ "ǯ" :> "Ǯ"))
 @@ (   ("ǰ" :> "J�" @@ "ǲ" :> "Ǳ" @@ "ǳ" :> "Ǳ" @@ "ǵ" :> "Ǵ")
     @@ ("ǹ" :> "Ǹ" @@ "ǻ" :> "Ǻ" @@ "ǽ" :> "Ǽ" @@ "ǿ" :> "Ǿ")
     @@ ("ʀ" :> "Ʀ" @@ "ʂ" :> "Ʂ" @@ "ʃ" :> "Ʃ" @@ "ʇ" :> "Ʇ")
     @@ ("ʈ" :> "Ʈ" @@ "ʉ" :> "�" @@ "ʊ" :> "Ʊ" @@ "ʋ" :> "Ʋ")
     @@ ("ʌ" :> "�" @@ "ʒ" :> "Ʒ" @@ "ʝ" :> "Ʝ" @@ "ʞ" :> "Ʞ")
     @@ ("ΐ" :> "Ι��" @@ "ά" :> "Ά" @@ "έ" :> "Έ" @@ "ή" :> "Ή")
     @@ ("ί" :> "Ί" @@ "ΰ" :> "Υ��" @@ "α" :> "Α" @@ "β" :> "Β")
     @@ ("γ" :> "Γ" @@ "δ" :> "Δ" @@ "ε" :> "Ε" @@ "ζ" :> "Ζ")
     @@ ("η" :> "Η" @@ "θ" :> "Θ" @@ "ι" :> "Ι" @@ "κ" :> "Κ")
     @@ ("λ" :> "Λ" @@ "μ" :> "Μ" @@ "ν" :> "Ν" @@ "ξ" :> "Ξ")
     @@ ("ο" :> "Ο" @@ "π" :> "Π" @@ "ρ" :> "Ρ" @@ "ς" :> "Σ")
     @@ ("σ" :> "Σ" @@ "τ" :> "Τ" @@ "υ" :> "Υ" @@ "φ" :> "Φ")
     @@ ("χ" :> "Χ" @@ "ψ" :> "Ψ" @@ "ω" :> "Ω" @@ "ϊ" :> "Ϊ"))
 @@ (   ("ϋ" :> "Ϋ" @@ "ό" :> "Ό" @@ "ύ" :> "Ύ" @@ "ώ" :> "Ώ")
     @@ ("ϐ" :> "Β" @@ "ϑ" :> "Θ" @@ "ϕ" :> "Φ" @@ "ϖ" :> "Π")
     @@ ("ϗ" :> "Ϗ" @@ "ϙ" :> "Ϙ" @@ "ϛ" :> "Ϛ" @@ "ϝ" :> "Ϝ")
     @@ ("ϟ" :> "Ϟ" @@ "ϡ" :> "Ϡ" @@ "ϣ" :> "Ϣ" @@ "ϥ" :> "Ϥ")
     @@ ("ϧ" :> "Ϧ" @@ "ϩ" :> "Ϩ" @@ "ϫ" :> "Ϫ" @@ "ϭ" :> "Ϭ")
     @@ ("ϯ" :> "Ϯ" @@ "ϰ" :> "Κ" @@ "ϱ" :> "Ρ" @@ "ϲ" :> "Ϲ")
     @@ ("ϳ" :> "�" @@ "ϵ" :> "Ε" @@ "ϸ" :> "Ϸ" @@ "ϻ" :> "Ϻ")
     @@ ("ҁ" :> "Ҁ" @@ "ҋ" :> "Ҋ" @@ "ҍ" :> "Ҍ" @@ "ҏ" :> "Ҏ")
     @@ ("ґ" :> "Ґ" @@ "ғ" :> "Ғ" @@ "ҕ" :> "Ҕ" @@ "җ" :> "Җ")
     @@ ("ҙ" :> "Ҙ" @@ "қ" :> "Қ" @@ "ҝ" :> "Ҝ" @@ "ҟ" :> "Ҟ")
     @@ ("ҡ" :> "Ҡ" @@ "ң" :> "Ң" @@ "ҥ" :> "Ҥ" @@ "ҧ" :> "Ҧ")
     @@ ("ҩ" :> "Ҩ" @@ "ҫ" :> "Ҫ" @@ "ҭ" :> "Ҭ" @@ "ү" :> "Ү")
     @@ ("ұ" :> "Ұ" @@ "ҳ" :> "Ҳ" @@ "ҵ" :> "Ҵ" @@ "ҷ" :> "Ҷ"))
 @@ (   ("ҹ" :> "Ҹ" @@ "һ" :> "Һ" @@ "ҽ" :> "Ҽ" @@ "ҿ" :> "Ҿ")
     @@ ("ӂ" :> "Ӂ" @@ "ӄ" :> "Ӄ" @@ "ӆ" :> "Ӆ" @@ "ӈ" :> "Ӈ")
     @@ ("ӊ" :> "Ӊ" @@ "ӌ" :> "Ӌ" @@ "ӎ" :> "Ӎ" @@ "ӏ" :> "Ӏ")
     @@ ("ӑ" :> "Ӑ" @@ "ӓ" :> "Ӓ" @@ "ӕ" :> "Ӕ" @@ "ӗ" :> "Ӗ")
     @@ ("ә" :> "Ә" @@ "ӛ" :> "Ӛ" @@ "ӝ" :> "Ӝ" @@ "ӟ" :> "Ӟ")
     @@ ("ӡ" :> "Ӡ" @@ "ӣ" :> "Ӣ" @@ "ӥ" :> "Ӥ" @@ "ӧ" :> "Ӧ")
     @@ ("ө" :> "Ө" @@ "ӫ" :> "Ӫ" @@ "ӭ" :> "Ӭ" @@ "ӯ" :> "Ӯ")
     @@ ("ӱ" :> "Ӱ" @@ "ӳ" :> "Ӳ" @@ "ӵ" :> "Ӵ" @@ "ӷ" :> "Ӷ")
     @@ ("ӹ" :> "Ӹ" @@ "ӻ" :> "Ӻ" @@ "ӽ" :> "Ӽ" @@ "ӿ" :> "Ӿ")
     @@ ("ր" :> "�" @@ "ց" :> "�" @@ "ւ" :> "�" @@ "փ" :> "�")
     @@ ("ք" :> "�" @@ "օ" :> "�" @@ "ֆ" :> "�" @@ "և" :> "��")
     @@ ("ა" :> "Ა" @@ "ბ" :> "Ბ" @@ "გ" :> "Გ" @@ "დ" :> "Დ")
     @@ ("ე" :> "Ე" @@ "ვ" :> "Ვ" @@ "ზ" :> "Ზ" @@ "თ" :> "Თ"))
 @@ (   ("ი" :> "Ი" @@ "კ" :> "Კ" @@ "ლ" :> "Ლ" @@ "მ" :> "Მ")
     @@ ("ნ" :> "Ნ" @@ "ო" :> "Ო" @@ "პ" :> "Პ" @@ "ჟ" :> "Ჟ")
     @@ ("რ" :> "Რ" @@ "ს" :> "Ს" @@ "ტ" :> "Ტ" @@ "უ" :> "Უ")
     @@ ("ფ" :> "Ფ" @@ "ქ" :> "Ქ" @@ "ღ" :> "Ღ" @@ "ყ" :> "Ყ")
     @@ ("შ" :> "Შ" @@ "ჩ" :> "Ჩ" @@ "ც" :> "Ც" @@ "ძ" :> "Ძ")
     @@ ("წ" :> "Წ" @@ "ჭ" :> "Ჭ" @@ "ხ" :> "Ხ" @@ "ჯ" :> "Ჯ")
     @@ ("ჰ" :> "Ჰ" @@ "ჱ" :> "Ჱ" @@ "ჲ" :> "Ჲ" @@ "ჳ" :> "Ჳ")
     @@ ("ჴ" :> "Ჴ" @@ "ჵ" :> "Ჵ" @@ "ჶ" :> "Ჶ" @@ "ჷ" :> "Ჷ")
     @@ ("ჸ" :> "Ჸ" @@ "ჹ" :> "Ჹ" @@ "ჺ" :> "Ჺ" @@ "ჽ" :> "Ჽ")
     @@ ("ჾ" :> "Ჾ" @@ "ჿ" :> "Ჿ" @@ "ᏸ" :> "Ᏸ" @@ "ᏹ" :> "Ᏹ")
     @@ ("ᏺ" :> "Ᏺ" @@ "ᏻ" :> "Ᏻ" @@ "ᏼ" :> "Ᏼ" @@ "ᏽ" :> "Ᏽ")
     @@ ("ᲀ" :> "�" @@ "ᲁ" :> "�" @@ "ᲂ" :> "�" @@ "ᲃ" :> "�")
     @@ ("ᲄ" :> "�" @@ "ᲅ" :> "�" @@ "ᲆ" :> "�" @@ "ᲇ" :> "�"))
 @@ (   ("ᲈ" :> "�" @@ "ᶎ" :> "Ᶎ" @@ "ẁ" :> "Ẁ" @@ "ẃ" :> "Ẃ")
     @@ ("ẅ" :> "Ẅ" @@ "ẇ" :> "Ẇ" @@ "ẉ" :> "Ẉ" @@ "ẋ" :> "Ẋ")
     @@ ("ẍ" :> "Ẍ" @@ "ẏ" :> "Ẏ" @@ "ẑ" :> "Ẑ" @@ "ẓ" :> "Ẓ")
     @@ ("ẕ" :> "Ẕ" @@ "ẖ" :> "H�" @@ "ẗ" :> "T�" @@ "ẘ" :> "W�")
     @@ ("ẙ" :> "Y�" @@ "ẚ" :> "Aʾ" @@ "ẛ" :> "�" @@ "ạ" :> "Ạ")
     @@ ("ả" :> "Ả" @@ "ấ" :> "Ấ" @@ "ầ" :> "Ầ" @@ "ẩ" :> "Ẩ")
     @@ ("ẫ" :> "Ẫ" @@ "ậ" :> "Ậ" @@ "ắ" :> "Ắ" @@ "ằ" :> "Ằ")
     @@ ("ẳ" :> "Ẳ" @@ "ẵ" :> "Ẵ" @@ "ặ" :> "Ặ" @@ "ẹ" :> "Ẹ")
     @@ ("ẻ" :> "Ẻ" @@ "ẽ" :> "Ẽ" @@ "ế" :> "Ế" @@ "ề" :> "Ề")
     @@ ("ể" :> "Ể" @@ "ễ" :> "Ễ" @@ "ệ" :> "Ệ" @@ "ỉ" :> "Ỉ")
     @@ ("ị" :> "Ị" @@ "ọ" :> "Ọ" @@ "ỏ" :> "Ỏ" @@ "ố" :> "Ố")
     @@ ("ồ" :> "Ồ" @@ "ổ" :> "Ổ" @@ "ỗ" :> "Ỗ" @@ "ộ" :> "Ộ")
     @@ ("ớ" :> "Ớ" @@ "ờ" :> "Ờ" @@ "ở" :> "Ở" @@ "ỡ" :> "Ỡ"))
 @@ (   ("ợ" :> "Ợ" @@ "ụ" :> "Ụ" @@ "ủ" :> "Ủ" @@ "ứ" :> "Ứ")
     @@ ("ừ" :> "Ừ" @@ "ử" :> "Ử" @@ "ữ" :> "Ữ" @@ "ự" :> "Ự")
     @@ ("ỳ" :> "Ỳ" @@ "ỵ" :> "Ỵ" @@ "ỷ" :> "Ỷ" @@ "ỹ" :> "Ỹ")
     @@ ("ỻ" :> "Ỻ" @@ "ỽ" :> "Ỽ" @@ "ỿ" :> "Ỿ" @@ "ᾀ" :> "�Ι")
     @@ ("ᾁ" :> "�Ι" @@ "ᾂ" :> "�Ι" @@ "ᾃ" :> "�Ι" @@ "ᾄ" :> "�Ι")
     @@ ("ᾅ" :> "�Ι" @@ "ᾆ" :> "�Ι" @@ "ᾇ" :> "�Ι" @@ "ᾈ" :> "�Ι")
     @@ ("ᾉ" :> "�Ι" @@ "ᾊ" :> "�Ι" @@ "ᾋ" :> "�Ι" @@ "ᾌ" :> "�Ι")
     @@ ("ᾍ" :> "�Ι" @@ "ᾎ" :> "�Ι" @@ "ᾏ" :> "�Ι" @@ "ᾐ" :> "�Ι")
     @@ ("ᾑ" :> "�Ι" @@ "ᾒ" :> "�Ι" @@ "ᾓ" :> "�Ι" @@ "ᾔ" :> "�Ι")
     @@ ("ᾕ" :> "�Ι" @@ "ᾖ" :> "�Ι" @@ "ᾗ" :> "�Ι" @@ "ᾘ" :> "�Ι")
     @@ ("ᾙ" :> "�Ι" @@ "ᾚ" :> "�Ι" @@ "ᾛ" :> "�Ι" @@ "ᾜ" :> "�Ι")
     @@ ("ᾝ" :> "�Ι" @@ "ᾞ" :> "�Ι" @@ "ᾟ" :> "�Ι" @@ "ᾠ" :> "�Ι")
     @@ ("ᾡ" :> "�Ι" @@ "ᾢ" :> "�Ι" @@ "ᾣ" :> "�Ι" @@ "ᾤ" :> "�Ι"))
 @@ (   ("ᾥ" :> "�Ι" @@ "ᾦ" :> "�Ι" @@ "ᾧ" :> "�Ι" @@ "ᾨ" :> "�Ι")
     @@ ("ᾩ" :> "�Ι" @@ "ᾪ" :> "�Ι" @@ "ᾫ" :> "�Ι" @@ "ᾬ" :> "�Ι")
     @@ ("ᾭ" :> "�Ι" @@ "ᾮ" :> "�Ι" @@ "ᾯ" :> "�Ι" @@ "ᾰ" :> "Ᾰ")
     @@ ("ᾱ" :> "Ᾱ" @@ "ᾲ" :> "ᾺΙ" @@ "ᾳ" :> "ΑΙ" @@ "ᾴ" :> "ΆΙ")
     @@ ("ᾶ" :> "Α�" @@ "ᾷ" :> "Α�Ι" @@ "ᾼ" :> "ΑΙ" @@ "ι" :> "Ι")
     @@ ("ῂ" :> "ῊΙ" @@ "ῃ" :> "ΗΙ" @@ "ῄ" :> "ΉΙ" @@ "ῆ" :> "Η�")
     @@ ("ῇ" :> "Η�Ι" @@ "ῌ" :> "ΗΙ" @@ "ῐ" :> "Ῐ" @@ "ῑ" :> "Ῑ")
     @@ ("ῒ" :> "Ι��" @@ "ΐ" :> "Ι��" @@ "ῖ" :> "Ι�" @@ "ῗ" :> "Ι��")
     @@ ("ῠ" :> "Ῠ" @@ "ῡ" :> "Ῡ" @@ "ῢ" :> "Υ��" @@ "ΰ" :> "Υ��")
     @@ ("ῤ" :> "Ρ�" @@ "ῥ" :> "Ῥ" @@ "ῦ" :> "Υ�" @@ "ῧ" :> "Υ��")
     @@ ("ῲ" :> "ῺΙ" @@ "ῳ" :> "ΩΙ" @@ "ῴ" :> "ΏΙ" @@ "ῶ" :> "Ω�")
     @@ ("ῷ" :> "Ω�Ι" @@ "ῼ" :> "ΩΙ" @@ "ↄ" :> "Ↄ" @@ "ⓐ" :> "Ⓐ")
     @@ ("ⓑ" :> "Ⓑ" @@ "ⓒ" :> "Ⓒ" @@ "ⓓ" :> "Ⓓ" @@ "ⓔ" :> "Ⓔ"))
 @@ (   ("ⓕ" :> "Ⓕ" @@ "ⓖ" :> "Ⓖ" @@ "ⓗ" :> "Ⓗ" @@ "ⓘ" :> "Ⓘ")
     @@ ("ⓙ" :> "Ⓙ" @@ "ⓚ" :> "Ⓚ" @@ "ⓛ" :> "Ⓛ" @@ "ⓜ" :> "Ⓜ")
     @@ ("ⓝ" :> "Ⓝ" @@ "ⓞ" :> "Ⓞ" @@ "ⓟ" :> "Ⓟ" @@ "ⓠ" :> "Ⓠ")
     @@ ("ⓡ" :> "Ⓡ" @@ "ⓢ" :> "Ⓢ" @@ "ⓣ" :> "Ⓣ" @@ "ⓤ" :> "Ⓤ")
     @@ ("ⓥ" :> "Ⓥ" @@ "ⓦ" :> "Ⓦ" @@ "ⓧ" :> "Ⓧ" @@ "ⓨ" :> "Ⓨ")
     @@ ("ⓩ" :> "Ⓩ" @@ "ⲁ" :> "Ⲁ" @@ "ⲃ" :> "Ⲃ" @@ "ⲅ" :> "Ⲅ")
     @@ ("ⲇ" :> "Ⲇ" @@ "ⲉ" :> "Ⲉ" @@ "ⲋ" :> "Ⲋ" @@ "ⲍ" :> "Ⲍ")
     @@ ("ⲏ" :> "Ⲏ" @@ "ⲑ" :> "Ⲑ" @@ "ⲓ" :> "Ⲓ" @@ "ⲕ" :> "Ⲕ")
     @@ ("ⲗ" :> "Ⲗ" @@ "ⲙ" :> "Ⲙ" @@ "ⲛ" :> "Ⲛ" @@ "ⲝ" :> "Ⲝ")
     @@ ("ⲟ" :> "Ⲟ" @@ "ⲡ" :> "Ⲡ" @@ "ⲣ" :> "Ⲣ" @@ "ⲥ" :> "Ⲥ")
     @@ ("ⲧ" :> "Ⲧ" @@ "ⲩ" :> "Ⲩ" @@ "ⲫ" :> "Ⲫ" @@ "ⲭ" :> "Ⲭ")
     @@ ("ⲯ" :> "Ⲯ" @@ "ⲱ" :> "Ⲱ" @@ "ⲳ" :> "Ⲳ" @@ "ⲵ" :> "Ⲵ")
     @@ ("ⲷ" :> "Ⲷ" @@ "ⲹ" :> "Ⲹ" @@ "ⲻ" :> "Ⲻ" @@ "ⲽ" :> "Ⲽ"))
 @@ (   ("ⲿ" :> "Ⲿ" @@ "ⳁ" :> "Ⳁ" @@ "ⳃ" :> "Ⳃ" @@ "ⳅ" :> "Ⳅ")
     @@ ("ⳇ" :> "Ⳇ" @@ "ⳉ" :> "Ⳉ" @@ "ⳋ" :> "Ⳋ" @@ "ⳍ" :> "Ⳍ")
     @@ ("ⳏ" :> "Ⳏ" @@ "ⳑ" :> "Ⳑ" @@ "ⳓ" :> "Ⳓ" @@ "ⳕ" :> "Ⳕ")
     @@ ("ⳗ" :> "Ⳗ" @@ "ⳙ" :> "Ⳙ" @@ "ⳛ" :> "Ⳛ" @@ "ⳝ" :> "Ⳝ")
     @@ ("ⳟ" :> "Ⳟ" @@ "ⳡ" :> "Ⳡ" @@ "ⳣ" :> "Ⳣ" @@ "ⳬ" :> "Ⳬ")
     @@ ("ⳮ" :> "Ⳮ" @@ "ⳳ" :> "Ⳳ" @@ "ꚁ" :> "Ꚁ" @@ "ꚃ" :> "Ꚃ")
     @@ ("ꚅ" :> "Ꚅ" @@ "ꚇ" :> "Ꚇ" @@ "ꚉ" :> "Ꚉ" @@ "ꚋ" :> "Ꚋ")
     @@ ("ꚍ" :> "Ꚍ" @@ "ꚏ" :> "Ꚏ" @@ "ꚑ" :> "Ꚑ" @@ "ꚓ" :> "Ꚓ")
     @@ ("ꚕ" :> "Ꚕ" @@ "ꚗ" :> "Ꚗ" @@ "ꚙ" :> "Ꚙ" @@ "ꚛ" :> "Ꚛ")
     @@ ("ꞁ" :> "Ꞁ" @@ "ꞃ" :> "Ꞃ" @@ "ꞅ" :> "Ꞅ" @@ "ꞇ" :> "Ꞇ")
     @@ ("ꞌ" :> "Ꞌ" @@ "ꞑ" :> "Ꞑ" @@ "ꞓ" :> "Ꞓ" @@ "ꞔ" :> "Ꞔ")
     @@ ("ꞗ" :> "Ꞗ" @@ "ꞙ" :> "Ꞙ" @@ "ꞛ" :> "Ꞛ" @@ "ꞝ" :> "Ꞝ")
     @@ ("ꞟ" :> "Ꞟ" @@ "ꞡ" :> "Ꞡ" @@ "ꞣ" :> "Ꞣ" @@ "ꞥ" :> "Ꞥ"))
 @@ (   ("ꞧ" :> "Ꞧ" @@ "ꞩ" :> "Ꞩ" @@ "ꞵ" :> "Ꞵ" @@ "ꞷ" :> "Ꞷ")
     @@ ("ꞹ" :> "Ꞹ" @@ "ꞻ" :> "Ꞻ" @@ "ꞽ" :> "Ꞽ" @@ "ꞿ" :> "Ꞿ")
     @@ ("ꟁ" :> "Ꟁ" @@ "ꟃ" :> "Ꟃ" @@ "ꟈ" :> "Ꟈ" @@ "ꟊ" :> "Ꟊ")
     @@ ("ꟑ" :> "Ꟑ" @@ "ꟗ" :> "Ꟗ" @@ "ꟙ" :> "Ꟙ" @@ "ꟶ" :> "Ꟶ")
     @@ ("ꮀ" :> "Ꮀ" @@ "ꮁ" :> "Ꮁ" @@ "ꮂ" :> "Ꮂ" @@ "ꮃ" :> "Ꮃ")
     @@ ("ꮄ" :> "Ꮄ" @@ "ꮅ" :> "Ꮅ" @@ "ꮆ" :> "Ꮆ" @@ "ꮇ" :> "Ꮇ")
     @@ ("ꮈ" :> "Ꮈ" @@ "ꮉ" :> "Ꮉ" @@ "ꮊ" :> "Ꮊ" @@ "ꮋ" :> "Ꮋ")
     @@ ("ꮌ" :> "Ꮌ" @@ "ꮍ" :> "Ꮍ" @@ "ꮎ" :> "Ꮎ" @@ "ꮏ" :> "Ꮏ")
     @@ ("ꮐ" :> "Ꮐ" @@ "ꮑ" :> "Ꮑ" @@ "ꮒ" :> "Ꮒ" @@ "ꮓ" :> "Ꮓ")
     @@ ("ꮔ" :> "Ꮔ" @@ "ꮕ" :> "Ꮕ" @@ "ꮖ" :> "Ꮖ" @@ "ꮗ" :> "Ꮗ")
     @@ ("ꮘ" :> "Ꮘ" @@ "ꮙ" :> "Ꮙ" @@ "ꮚ" :> "Ꮚ" @@ "ꮛ" :> "Ꮛ")
     @@ ("ꮜ" :> "Ꮜ" @@ "ꮝ" :> "Ꮝ" @@ "ꮞ" :> "Ꮞ" @@ "ꮟ" :> "Ꮟ")
     @@ ("ꮠ" :> "Ꮠ" @@ "ꮡ" :> "Ꮡ" @@ "ꮢ" :> "Ꮢ" @@ "ꮣ" :> "Ꮣ"))
 @@ (   ("ꮤ" :> "Ꮤ" @@ "ꮥ" :> "Ꮥ" @@ "ꮦ" :> "Ꮦ" @@ "ꮧ" :> "Ꮧ")
     @@ ("ꮨ" :> "Ꮨ" @@ "ꮩ" :> "Ꮩ" @@ "ꮪ" :> "Ꮪ" @@ "ꮫ" :> "Ꮫ")
     @@ ("ꮬ" :> "Ꮬ" @@ "ꮭ" :> "Ꮭ" @@ "ꮮ" :> "Ꮮ" @@ "ꮯ" :> "Ꮯ")
     @@ ("ꮰ" :> "Ꮰ" @@ "ꮱ" :> "Ꮱ" @@ "ꮲ" :> "Ꮲ" @@ "ꮳ" :> "Ꮳ")
     @@ ("ꮴ" :> "Ꮴ" @@ "ꮵ" :> "Ꮵ" @@ "ꮶ" :> "Ꮶ" @@ "ꮷ" :> "Ꮷ")
     @@ ("ꮸ" :> "Ꮸ" @@ "ꮹ" :> "Ꮹ" @@ "ꮺ" :> "Ꮺ" @@ "ꮻ" :> "Ꮻ")
     @@ ("ꮼ" :> "Ꮼ" @@ "ꮽ" :> "Ꮽ" @@ "ꮾ" :> "Ꮾ" @@ "ꮿ" :> "Ꮿ"))

\* str.upper(), computed on the two halves of a string longer than one
\* character.
RECURSIVE upper(_)
upper(s) ==
    IF Len(s) = 0 THEN ""
    ELSE IF Len(s) = 1 THEN (IF s \in DOMAIN UpperChar THEN UpperChar[s] ELSE s)
    ELSE LET h == Len(s) \div 2
         IN  upper(SubSeq(s, 1, h)) \o upper(SubSeq(s, h + 1, Len(s)))

\* The case-ignorable characters, which the rule of the final sigma skips.
CaseIgnorable ==
    {"'", ".", ":", "^", "¨", "­", "¯", "´", "·", "¸", "ʰ", "ʱ",
     "ʲ", "ʳ", "ʴ", "ʵ", "ʶ", "ʷ", "ʸ", "ʹ", "ʺ", "ʻ", "ʼ", "ʽ",
     "ʾ", "ʿ", "ˀ", "ˁ", "˂", "˃", "˄", "˅", "ˆ", "ˇ", "ˈ", "ˉ",
     "ˊ", "ˋ", "ˌ", "ˍ", "ˎ", "ˏ", "ː", "ˑ", "˒", "˓", "˔", "˕",
     "˖", "˗", "˘", "˙", "˚", "˛", "˜", "˝", "˞", "˟", "ˠ", "ˡ",
     "ˢ", "ˣ", "ˤ", "˥", "˦", "˧", "˨", "˩", "˪", "˫", "ˬ", "˭",
     "ˮ", "˯", "˰", "˱", "˲", "˳", "˴", "˵", "˶", "˷", "˸", "˹",
     "˺", "˻", "˼", "˽", "˾", "˿", "΄", "΅", "·", "҃", "҄", "҅",
     "҆", "҇", "҈", "҉", "֑", "֒", "֓", "֔", "֕", "֖", "֗", "֘",
     "֙", "֚", "֛", "֜", "֝", "֞", "֟", "֠", "֡", "֢", "֣", "֤",
     "֥", "֦", "֧", "֨", "֩", "֪", "֫", "֬", "֭", "֮", "֯", "ְ",
     "ֱ", "ֲ", "ֳ", "ִ", "ֵ", "ֶ", "ַ", "ָ", "ֹ", "ֺ", "ֻ", "ּ",
     "ֽ", "ֿ", "ׁ", "ׂ", "ׄ", "ׅ", "ׇ", "״", "ۖ", "ۗ", "ۘ", "ۙ",
     "ۚ", "ۛ", "ۜ", "۝", "۟", "۠", "ۡ", "ۢ", "ۣ", "ۤ", "ۥ", "ۦ",
     "ۧ", "ۨ", "۪", "۫", "۬", "ۭ", "ަ", "ާ", "ި", "ީ", "ު", "ޫ",
     "ެ", "ޭ", "ޮ", "ޯ", "ް", "߫", "߬", "߭", "߮", "߯", "߰", "߱",
     "߲", "߳", "ߴ", "ߵ", "ߺ", "߽", "࢈", "࢐", "࢑", "࢘", "࢙", "࢚",
     "࢛", "࢜", "࢝", "࢞", "࢟", "ࣉ", "࣊", "࣋", "࣌", "࣍", "࣎", "࣏",
     "࣐", "࣑", "࣒", "࣓", "ࣔ", "ࣕ", "ࣖ", "ࣗ", "ࣘ", "ࣙ", "ࣚ", "ࣛ",
     "ࣜ", "ࣝ", "ࣞ", "ࣟ", "࣠", "࣡", "࣢", "ࣣ", "ࣤ", "ࣥ", "ࣦ", "ࣧ",
     "ࣨ", "ࣩ", "࣪", "࣫", "࣬", "࣭", "࣮", "࣯", "ࣰ", "ࣱ", "ࣲ", "ࣳ",
     "ࣴ", "ࣵ", "ࣶ", "ࣷ", "ࣸ", "ࣹ", "ࣺ", "ࣻ", "ࣼ", "ࣽ", "ࣾ", "ࣿ",
     "ঁ", "়", "ু", "ূ", "ৃ", "ৄ", "্", "ৢ", "ৣ", "৾", "ઁ", "ં",
     "઼", "ુ", "ૂ", "ૃ", "ૄ", "ૅ", "ે", "ૈ", "્", "ૢ", "ૣ", "ૺ",
     "ૻ", "ૼ", "૽", "૾", "૿", "ஂ", "ீ", "்", "ಁ", "಼", "ಿ", "ೆ",
     "ೌ", "್", "ೢ", "ೣ", "ඁ", "්", "ි", "ී", "ු", "ූ", "ັ", "ິ",
     "ີ", "ຶ", "ື", "ຸ", "ູ", "຺", "ົ", "ຼ", "ໆ", "່", "້", "໊",
     "໋", "໌", "ໍ", "ྀ", "ཱྀ", "ྂ", "ྃ", "྄", "྆", "྇", "ྍ", "ྎ",
     "ྏ", "ྐ", "ྑ", "ྒ", "ྒྷ", "ྔ", "ྕ", "ྖ", "ྗ", "ྙ", "ྚ", "ྛ",
     "ྜ", "ྜྷ", "ྞ", "ྟ", "ྠ", "ྡ", "ྡྷ", "ྣ", "ྤ", "ྥ", "ྦ", "ྦྷ",
     "ྨ", "ྩ", "ྪ", "ྫ", "ྫྷ", "ྭ", "ྮ", "ྯ", "ྰ", "ྱ", "ྲ", "ླ",
     "ྴ", "ྵ", "ྶ", "ྷ", "ྸ", "ྐྵ", "ྺ", "ྻ", "ྼ", "࿆", "ႂ", "ႅ",
     "ႆ", "ႍ", "ႝ", "ჼ", "឴", "឵", "ិ", "ី", "ឹ", "ឺ", "ុ", "ូ",
     "ួ", "ំ", "៉", "៊", "់", "៌", "៍", "៎", "៏", "័", "៑", "្",
     "៓", "ៗ", "៝", "ᢅ", "ᢆ", "ᢩ", "ᪧ", "᪰", "᪱", "᪲", "᪳", "᪴",
     "᪵", "᪶", "᪷", "᪸", "᪹", "᪺", "᪻", "᪼", "᪽", "᪾", "ᪿ", "ᫀ",
     "᫁", "᫂", "᫃", "᫄", "᫅", "᫆", "᫇", "᫈", "᫉", "᫊", "᫋", "ᫌ",
     "ᫍ", "ᫎ", "ᮀ", "ᮁ", "ᮢ", "ᮣ", "ᮤ", "ᮥ", "ᮨ", "ᮩ", "᮫", "ᮬ",
     "ᮭ", "᯦", "ᯨ", "ᯩ", "ᯭ", "ᯯ", "ᯰ", "ᯱ", "᳐", "᳑", "᳒", "᳔",
     "᳕", "᳖", "᳗", "᳘", "᳙", "᳚", "᳛", "᳜", "᳝", "᳞", "᳟", "᳠",
     "᳢", "᳣", "᳤", "᳥", "᳦", "᳧", "᳨", "᳭", "᳴", "᳸", "᳹", "ᶛ",
     "ᶜ", "ᶝ", "ᶞ", "ᶟ", "ᶠ", "ᶡ", "ᶢ", "ᶣ", "ᶤ", "ᶥ", "ᶦ", "ᶧ",
     "ᶨ", "ᶩ", "ᶪ", "ᶫ", "ᶬ", "ᶭ", "ᶮ", "ᶯ", "ᶰ", "ᶱ", "ᶲ", "ᶳ",
     "ᶴ", "ᶵ", "ᶶ", "ᶷ", "ᶸ", "ᶹ", "ᶺ", "ᶻ", "ᶼ", "ᶽ", "ᶾ", "ᶿ",
     "᷀", "᷁", "᷂", "᷃", "᷄", "᷅", "᷆", "᷇", "᷈", "᷉", "᷊", "᷋",
     "᷌", "᷍", "᷎", "᷏", "᷐", "᷑", "᷒", "ᷓ", "ᷔ", "ᷕ", "ᷖ", "ᷗ",
     "ᷘ", "ᷙ", "ᷚ", "ᷛ", "ᷜ", "ᷝ", "ᷞ", "ᷟ", "ᷠ", "ᷡ", "ᷢ", "ᷣ",
     "ᷤ", "ᷥ", "ᷦ", "ᷧ", "ᷨ", "ᷩ", "ᷪ", "ᷫ", "ᷬ", "ᷭ", "ᷮ", "ᷯ",
     "ᷰ", "ᷱ", "ᷲ", "ᷳ", "ᷴ", "᷵", "᷶", "᷷", "᷸", "᷹", "᷺", "᷻",
     "᷼", "᷽", "᷾", "᷿", "᾽", "᾿", "῀", "῁", "῍", "῎", "῏", "῝",
     "῞", "῟", "῭", "΅", "`", "´", "῾", "ₐ", "ₑ", "ₒ", "ₓ", "ₔ",
     "ₕ", "ₖ", "ₗ", "ₘ", "ₙ", "ₚ", "ₛ", "ₜ", "⃐", "⃑", "⃒", "⃓",
     "⃔", "⃕", "⃖", "⃗", "⃘", "⃙", "⃚", "⃛", "⃜", "⃝", "⃞", "⃟",
     "⃠", "⃡", "⃢", "⃣", "⃤", "⃥", "⃦", "⃧", "⃨", "⃩", "⃪", "⃫",
     "⃬", "⃭", "⃮", "⃯", "⃰", "⳯", "⳰", "⳱", "ⷠ", "ⷡ", "ⷢ", "ⷣ",
     "ⷤ", "ⷥ", "ⷦ", "ⷧ", "ⷨ", "ⷩ", "ⷪ", "ⷫ", "ⷬ", "ⷭ", "ⷮ", "ⷯ",
     "ⷰ", "ⷱ", "ⷲ", "ⷳ", "ⷴ", "ⷵ", "ⷶ", "ⷷ", "ⷸ", "ⷹ", "ⷺ", "ⷻ",
     "ⷼ", "ⷽ", "ⷾ", "ⷿ", "゙", "゚", "゛", "゜", "ゝ", "ゞ", "ー", "ヽ",
     "ヾ", "ꓸ", "ꓹ", "ꓺ", "ꓻ", "ꓼ", "ꓽ", "ꚜ", "ꚝ", "ꚞ", "ꚟ", "꛰",
     "꛱", "ꞈ", "꞉", "꞊", "ꟲ", "ꟳ", "ꟴ", "ꟸ", "ꟹ", "꣄", "ꣅ", "꣠",
     "꣡", "꣢", "꣣", "꣤", "꣥", "꣦", "꣧", "꣨", "꣩", "꣪", "꣫", "꣬",
     "꣭", "꣮", "꣯", "꣰", "꣱", "ꣿ", "ꦀ", "ꦁ", "ꦂ", "꦳", "ꦶ", "ꦷ",
     "ꦸ", "ꦹ", "ꦼ", "ꦽ", "ꧏ", "ꧥ", "ꧦ", "ꪰ", "ꪲ", "ꪳ", "ꪴ", "ꪷ",
     "ꪸ", "ꪾ", "꪿", "꫁", "ꫝ", "ꫬ", "ꫭ", "ꫳ", "ꫴ", "꫶", "ꯥ", "ꯨ",
     "꯭", "﮲", "﮳", "﮴", "﮵", "﮶", "﮷", "﮸", "﮹", "﮺", "﮻", "﮼",
     "﮽", "﮾", "﮿", "﯀", "﯁", "﯂", "﻿", "ﾞ", "ﾟ", "￣", "￹", "￺",
     "￻"}

\* The cased characters that are not case-ignorable.
Cased ==
    {"A", "B", "C", "D", "E", "F", "G", "H", "I", "J", "K", "L",
     "M", "N", "O", "P", "Q", "R", "S", "T", "U", "V", "W", "X",
     "Y", "Z", "a", "b", "c", "d", "e", "f", "g", "h", "i", "j",
     "k", "l", "m", "n", "o", "p", "q", "r", "s", "t", "u", "v",
     "w", "x", "y", "z", "ª", "µ", "º", "À", "Á", "Â", "Ã", "Ä",
     "Å", "Æ", "Ç", "È", "É", "Ê", "Ë", "Ì", "Í", "Î", "Ï", "Ð",
     "Ñ", "Ò", "Ó", "Ô", "Õ", "Ö", "Ø", "Ù", "Ú", "Û", "Ü", "Ý",
     "Þ", "ß", "à", "á", "â", "ã", "ä", "å", "æ", "ç", "è", "é",
     "ê", "ë", "ì", "í", "î", "ï", "ð", "ñ", "ò", "ó", "ô", "õ",
     "ö", "ø", "ù", "ú", "û", "ü", "ý", "þ", "ÿ", "ƀ", "Ɓ", "Ƃ",
     "ƃ", "Ƅ", "ƅ", "Ɔ", "Ƈ", "ƈ", "Ɖ", "Ɗ", "Ƌ", "ƌ", "ƍ", "Ǝ",
     "Ə", "Ɛ", "Ƒ", "ƒ", "Ɠ", "Ɣ", "ƕ", "Ɩ", "Ɨ", "Ƙ", "ƙ", "ƚ",
     "ƛ", "Ɯ", "Ɲ", "ƞ", "Ɵ", "Ơ", "ơ", "Ƣ", "ƣ", "Ƥ", "ƥ", "Ʀ",
     "Ƨ", "ƨ", "Ʃ", "ƪ", "ƫ", "Ƭ", "ƭ", "Ʈ", "Ư", "ư", "Ʊ", "Ʋ",
     "Ƴ", "ƴ", "Ƶ", "ƶ", "Ʒ", "Ƹ", "ƹ", "ƺ", "Ƽ", "ƽ", "ƾ", "ƿ",
     "Ǆ", "ǅ", "ǆ", "Ǉ", "ǈ", "ǉ", "Ǌ", "ǋ", "ǌ", "Ǎ", "ǎ", "Ǐ",
     "ǐ", "Ǒ", "ǒ", "Ǔ", "ǔ", "Ǖ", "ǖ", "Ǘ", "ǘ", "Ǚ", "ǚ", "Ǜ",
     "ǜ", "ǝ", "Ǟ", "ǟ", "Ǡ", "ǡ", "Ǣ", "ǣ", "Ǥ", "ǥ", "Ǧ", "ǧ",
     "Ǩ", "ǩ", "Ǫ", "ǫ", "Ǭ", "ǭ", "Ǯ", "ǯ", "ǰ", "Ǳ", "ǲ", "ǳ",
     "Ǵ", "ǵ", "Ƕ", "Ƿ", "Ǹ", "ǹ", "Ǻ", "ǻ", "Ǽ", "ǽ", "Ǿ", "ǿ",
     "ʀ", "ʁ", "ʂ", "ʃ", "ʄ", "ʅ", "ʆ", "ʇ", "ʈ", "ʉ", "ʊ", "ʋ",
     "ʌ", "ʍ", "ʎ", "ʏ", "ʐ", "ʑ", "ʒ", "ʓ", "ʕ", "ʖ", "ʗ", "ʘ",
     "ʙ", "ʚ", "ʛ", "ʜ", "ʝ", "ʞ", "ʟ", "ʠ", "ʡ", "ʢ", "ʣ", "ʤ",
     "ʥ", "ʦ", "ʧ", "ʨ", "ʩ", "ʪ", "ʫ", "ʬ", "ʭ", "ʮ", "ʯ", "Ά",
     "Έ", "Ή", "Ί", "Ό", "Ύ", "Ώ", "ΐ", "Α", "Β", "Γ", "Δ", "Ε",
     "Ζ", "Η", "Θ", "Ι", "Κ", "Λ", "Μ", "Ν", "Ξ", "Ο", "Π", "Ρ",
     "Σ", "Τ", "Υ", "Φ", "Χ", "Ψ", "Ω", "Ϊ", "Ϋ", "ά", "έ", "ή",
     "ί", "ΰ", "α", "β", "γ", "δ", "ε", "ζ", "η", "θ", "ι", "κ",
     "λ", "μ", "ν", "ξ", "ο", "π", "ρ", "ς", "σ", "τ", "υ", "φ",
     "χ", "ψ", "ω", "ϊ", "ϋ", "ό", "ύ", "ώ", "Ϗ", "ϐ", "ϑ", "ϒ",
     "ϓ", "ϔ", "ϕ", "ϖ", "ϗ", "Ϙ", "ϙ", "Ϛ", "ϛ", "Ϝ", "ϝ", "Ϟ",
     "ϟ", "Ϡ", "ϡ", "Ϣ", "ϣ", "Ϥ", "ϥ", "Ϧ", "ϧ", "Ϩ", "ϩ", "Ϫ",
     "ϫ", "Ϭ", "ϭ", "Ϯ", "ϯ", "ϰ", "ϱ", "ϲ", "ϳ", "ϴ", "ϵ", "Ϸ",
     "ϸ", "Ϲ", "Ϻ", "ϻ", "ϼ", "Ͻ", "Ͼ", "Ͽ", "Ҁ", "ҁ", "Ҋ", "ҋ",
     "Ҍ", "ҍ", "Ҏ", "ҏ", "Ґ", "ґ", "Ғ", "ғ", "Ҕ", "ҕ", "Җ", "җ",
     "Ҙ", "ҙ", "Қ", "қ", "Ҝ", "ҝ", "Ҟ", "ҟ", "Ҡ", "ҡ", "Ң", "ң",
     "Ҥ", "ҥ", "Ҧ", "ҧ", "Ҩ", "ҩ", "Ҫ", "ҫ", "Ҭ", "ҭ", "Ү", "ү",
     "Ұ", "ұ", "Ҳ", "ҳ", "Ҵ", "ҵ", "Ҷ", "ҷ", "Ҹ", "ҹ", "Һ", "һ",
     "Ҽ", "ҽ", "Ҿ", "ҿ", "Ӏ", "Ӂ", "ӂ", "Ӄ", "ӄ", "Ӆ", "ӆ", "Ӈ",
     "ӈ", "Ӊ", "ӊ", "Ӌ", "ӌ", "Ӎ", "ӎ", "ӏ", "Ӑ", "ӑ", "Ӓ", "ӓ",
     "Ӕ", "ӕ", "Ӗ", "ӗ", "Ә", "ә", "Ӛ", "ӛ", "Ӝ", "ӝ", "Ӟ", "ӟ",
     "Ӡ", "ӡ", "Ӣ", "ӣ", "Ӥ", "ӥ", "Ӧ", "ӧ", "Ө", "ө", "Ӫ", "ӫ",
     "Ӭ", "ӭ", "Ӯ", "ӯ", "Ӱ", "ӱ", "Ӳ", "ӳ", "Ӵ", "ӵ", "Ӷ", "ӷ",
     "Ӹ", "ӹ", "Ӻ", "ӻ", "Ӽ", "ӽ", "Ӿ", "ӿ", "ր", "ց", "ւ", "փ",
     "ք", "օ", "ֆ", "և", "ֈ", "Ⴀ", "Ⴁ", "Ⴂ", "Ⴃ", "Ⴄ", "Ⴅ", "Ⴆ",
     "Ⴇ", "Ⴈ", "Ⴉ", "Ⴊ", "Ⴋ", "Ⴌ", "Ⴍ", "Ⴎ", "Ⴏ", "Ⴐ", "Ⴑ", "Ⴒ",
     "Ⴓ", "Ⴔ", "Ⴕ", "Ⴖ", "Ⴗ", "Ⴘ", "Ⴙ", "Ⴚ", "Ⴛ", "Ⴜ", "Ⴝ", "Ⴞ",
     "Ⴟ", "Ⴠ", "Ⴡ", "Ⴢ", "Ⴣ", "Ⴤ", "Ⴥ", "Ⴧ", "Ⴭ", "ა", "ბ", "გ",
     "დ", "ე", "ვ", "ზ", "თ", "ი", "კ", "ლ", "მ", "ნ", "ო", "პ",
     "ჟ", "რ", "ს", "ტ", "უ", "ფ", "ქ", "ღ", "ყ", "შ", "ჩ", "ც",
     "ძ", "წ", "ჭ", "ხ", "ჯ", "ჰ", "ჱ", "ჲ", "ჳ", "ჴ", "ჵ", "ჶ",
     "ჷ", "ჸ", "ჹ", "ჺ", "ჽ", "ჾ", "ჿ", "Ꭰ", "Ꭱ", "Ꭲ", "Ꭳ", "Ꭴ",
     "Ꭵ", "Ꭶ", "Ꭷ", "Ꭸ", "Ꭹ", "Ꭺ", "Ꭻ", "Ꭼ", "Ꭽ", "Ꭾ", "Ꭿ", "Ꮀ",
     "Ꮁ", "Ꮂ", "Ꮃ", "Ꮄ", "Ꮅ", "Ꮆ", "Ꮇ", "Ꮈ", "Ꮉ", "Ꮊ", "Ꮋ", "Ꮌ",
     "Ꮍ", "Ꮎ", "Ꮏ", "Ꮐ", "Ꮑ", "Ꮒ", "Ꮓ", "Ꮔ", "Ꮕ", "Ꮖ", "Ꮗ", "Ꮘ",
     "Ꮙ", "Ꮚ", "Ꮛ", "Ꮜ", "Ꮝ", "Ꮞ", "Ꮟ", "Ꮠ", "Ꮡ", "Ꮢ", "Ꮣ", "Ꮤ",
     "Ꮥ", "Ꮦ", "Ꮧ", "Ꮨ", "Ꮩ", "Ꮪ", "Ꮫ", "Ꮬ", "Ꮭ", "Ꮮ", "Ꮯ", "Ꮰ",
     "Ꮱ", "Ꮲ", "Ꮳ", "Ꮴ", "Ꮵ", "Ꮶ", "Ꮷ", "Ꮸ", "Ꮹ", "Ꮺ", "Ꮻ", "Ꮼ",
     "Ꮽ", "Ꮾ", "Ꮿ", "Ᏸ", "Ᏹ", "Ᏺ", "Ᏻ", "Ᏼ", "Ᏽ", "ᏸ", "ᏹ", "ᏺ",
     "ᏻ", "ᏼ", "ᏽ", "ᲀ", "ᲁ", "ᲂ", "ᲃ", "ᲄ", "ᲅ", "ᲆ", "ᲇ", "ᲈ",
     "Ა", "Ბ", "Გ", "Დ", "Ე", "Ვ", "Ზ", "Თ", "Ი", "Კ", "Ლ", "Მ",
     "Ნ", "Ო", "Პ", "Ჟ", "Რ", "Ს", "Ტ", "Უ", "Ფ", "Ქ", "Ღ", "Ყ",
     "Შ", "Ჩ", "Ც", "Ძ", "Წ", "Ჭ", "Ხ", "Ჯ", "Ჰ", "Ჱ", "Ჲ", "Ჳ",
     "Ჴ", "Ჵ", "Ჶ", "Ჷ", "Ჸ", "Ჹ", "Ჺ", "Ჽ", "Ჾ", "Ჿ", "ᶀ", "ᶁ",
     "ᶂ", "ᶃ", "ᶄ", "ᶅ", "ᶆ", "ᶇ", "ᶈ", "ᶉ", "ᶊ", "ᶋ", "ᶌ", "ᶍ",
     "ᶎ", "ᶏ", "ᶐ", "ᶑ", "ᶒ", "ᶓ", "ᶔ", "ᶕ", "ᶖ", "ᶗ", "ᶘ", "ᶙ",
     "ᶚ", "Ẁ", "ẁ", "Ẃ", "ẃ", "Ẅ", "ẅ", "Ẇ", "ẇ", "Ẉ", "ẉ", "Ẋ",
     "ẋ", "Ẍ", "ẍ", "Ẏ", "ẏ", "Ẑ", "ẑ", "Ẓ", "ẓ", "Ẕ", "ẕ", "ẖ",
     "ẗ", "ẘ", "ẙ", "ẚ", "ẛ", "ẜ", "ẝ", "ẞ", "ẟ", "Ạ", "ạ", "Ả",
     "ả", "Ấ", "ấ", "Ầ", "ầ", "Ẩ", "ẩ", "Ẫ", "ẫ", "Ậ", "ậ", "Ắ",
     "ắ", "Ằ", "ằ", "Ẳ", "ẳ", "Ẵ", "ẵ", "Ặ", "ặ", "Ẹ", "ẹ", "Ẻ",
     "ẻ", "Ẽ", "ẽ", "Ế", "ế", "Ề", "ề", "Ể", "ể", "Ễ", "ễ", "Ệ",
     "ệ", "Ỉ", "ỉ", "Ị", "ị", "Ọ", "ọ", "Ỏ", "ỏ", "Ố", "ố", "Ồ",
     "ồ", "Ổ", "ổ", "Ỗ", "ỗ", "Ộ", "ộ", "Ớ", "ớ", "Ờ", "ờ", "Ở",
     "ở", "Ỡ", "ỡ", "Ợ", "ợ", "Ụ", "ụ", "Ủ", "ủ", "Ứ", "ứ", "Ừ",
     "ừ", "Ử", "ử", "Ữ", "ữ", "Ự", "ự", "Ỳ", "ỳ", "Ỵ", "ỵ", "Ỷ",
     "ỷ", "Ỹ", "ỹ", "Ỻ", "ỻ", "Ỽ", "ỽ", "Ỿ", "ỿ", "ᾀ", "ᾁ", "ᾂ",
     "ᾃ", "ᾄ", "ᾅ", "ᾆ", "ᾇ", "ᾈ", "ᾉ", "ᾊ", "ᾋ", "ᾌ", "ᾍ", "ᾎ",
     "ᾏ", "ᾐ", "ᾑ", "ᾒ", "ᾓ", "ᾔ", "ᾕ", "ᾖ", "ᾗ", "ᾘ", "ᾙ", "ᾚ",
     "ᾛ", "ᾜ", "ᾝ", "ᾞ", "ᾟ", "ᾠ", "ᾡ", "ᾢ", "ᾣ", "ᾤ", "ᾥ", "ᾦ",
     "ᾧ", "ᾨ", "ᾩ", "ᾪ", "ᾫ", "ᾬ", "ᾭ", "ᾮ", "ᾯ", "ᾰ", "ᾱ", "ᾲ",
     "ᾳ", "ᾴ", "ᾶ", "ᾷ", "Ᾰ", "Ᾱ", "Ὰ", "Ά", "ᾼ", "ι", "ῂ", "ῃ",
     "ῄ", "ῆ", "ῇ", "Ὲ", "Έ", "Ὴ", "Ή", "ῌ", "ῐ", "ῑ", "ῒ", "ΐ",
     "ῖ", "ῗ", "Ῐ", "Ῑ", "Ὶ", "Ί", "ῠ", "ῡ", "ῢ", "ΰ", "ῤ", "ῥ",
     "ῦ", "ῧ", "Ῠ", "Ῡ", "Ὺ", "Ύ", "Ῥ", "ῲ", "ῳ", "ῴ", "ῶ", "ῷ",
     "Ὸ", "Ό", "Ὼ", "Ώ", "ῼ", "Ↄ", "ↄ", "Ⓐ", "Ⓑ", "Ⓒ", "Ⓓ", "Ⓔ",
     "Ⓕ", "Ⓖ", "Ⓗ", "Ⓘ", "Ⓙ", "Ⓚ", "Ⓛ", "Ⓜ", "Ⓝ", "Ⓞ", "Ⓟ", "Ⓠ",
     "Ⓡ", "Ⓢ", "Ⓣ", "Ⓤ", "Ⓥ", "Ⓦ", "Ⓧ", "Ⓨ", "Ⓩ", "ⓐ", "ⓑ", "ⓒ",
     "ⓓ", "ⓔ", "ⓕ", "ⓖ", "ⓗ", "ⓘ", "ⓙ", "ⓚ", "ⓛ", "ⓜ", "ⓝ", "ⓞ",
     "ⓟ", "ⓠ", "ⓡ", "ⓢ", "ⓣ", "ⓤ", "ⓥ", "ⓦ", "ⓧ", "ⓨ", "ⓩ", "Ⲁ",
     "ⲁ", "Ⲃ", "ⲃ", "Ⲅ", "ⲅ", "Ⲇ", "ⲇ", "Ⲉ", "ⲉ", "Ⲋ", "ⲋ", "Ⲍ",
     "ⲍ", "Ⲏ", "ⲏ", "Ⲑ", "ⲑ", "Ⲓ", "ⲓ", "Ⲕ", "ⲕ", "Ⲗ", "ⲗ", "Ⲙ",
     "ⲙ", "Ⲛ", "ⲛ", "Ⲝ", "ⲝ", "Ⲟ", "ⲟ", "Ⲡ", "ⲡ", "Ⲣ", "ⲣ", "Ⲥ",
     "ⲥ", "Ⲧ", "ⲧ", "Ⲩ", "ⲩ", "Ⲫ", "ⲫ", "Ⲭ", "ⲭ", "Ⲯ", "ⲯ", "Ⲱ",
     "ⲱ", "Ⲳ", "ⲳ", "Ⲵ", "ⲵ", "Ⲷ", "ⲷ", "Ⲹ", "ⲹ", "Ⲻ", "ⲻ", "Ⲽ",
     "ⲽ", "Ⲿ", "ⲿ", "Ⳁ", "ⳁ", "Ⳃ", "ⳃ", "Ⳅ", "ⳅ", "Ⳇ", "ⳇ", "Ⳉ",
     "ⳉ", "Ⳋ", "ⳋ", "Ⳍ", "ⳍ", "Ⳏ", "ⳏ", "Ⳑ", "ⳑ", "Ⳓ", "ⳓ", "Ⳕ",
     "ⳕ", "Ⳗ", "ⳗ", "Ⳙ", "ⳙ", "Ⳛ", "ⳛ", "Ⳝ", "ⳝ", "Ⳟ", "ⳟ", "Ⳡ",
     "ⳡ", "Ⳣ", "ⳣ", "ⳤ", "Ⳬ", "ⳬ", "Ⳮ", "ⳮ", "Ⳳ", "ⳳ", "Ꚁ", "ꚁ",
     "Ꚃ", "ꚃ", "Ꚅ", "ꚅ", "Ꚇ", "ꚇ", "Ꚉ", "ꚉ", "Ꚋ", "ꚋ", "Ꚍ", "ꚍ",
     "Ꚏ", "ꚏ", "Ꚑ", "ꚑ", "Ꚓ", "ꚓ", "Ꚕ", "ꚕ", "Ꚗ", "ꚗ", "Ꚙ", "ꚙ",
     "Ꚛ", "ꚛ", "Ꞁ", "ꞁ", "Ꞃ", "ꞃ", "Ꞅ", "ꞅ", "Ꞇ", "ꞇ", "Ꞌ", "ꞌ",
     "Ɥ", "ꞎ", "Ꞑ", "ꞑ", "Ꞓ", "ꞓ", "ꞔ", "ꞕ", "Ꞗ", "ꞗ", "Ꞙ", "ꞙ",
     "Ꞛ", "ꞛ", "Ꞝ", "ꞝ", "Ꞟ", "ꞟ", "Ꞡ", "ꞡ", "Ꞣ", "ꞣ", "Ꞥ", "ꞥ",
     "Ꞧ", "ꞧ", "Ꞩ", "ꞩ", "Ɦ", "Ɜ", "Ɡ", "Ɬ", "Ɪ", "ꞯ", "Ʞ", "Ʇ",
     "Ʝ", "Ꭓ", "Ꞵ", "ꞵ", "Ꞷ", "ꞷ", "Ꞹ", "ꞹ", "Ꞻ", "ꞻ", "Ꞽ", "ꞽ",
     "Ꞿ", "ꞿ", "Ꟁ", "ꟁ", "Ꟃ", "ꟃ", "Ꞔ", "Ʂ", "Ᶎ", "Ꟈ", "ꟈ", "Ꟊ",
     "ꟊ", "Ꟑ", "ꟑ", "ꟓ", "ꟕ", "Ꟗ", "ꟗ", "Ꟙ", "ꟙ", "Ꟶ", "ꟶ", "ꟺ",
     "ꮀ", "ꮁ", "ꮂ", "ꮃ", "ꮄ", "ꮅ", "ꮆ", "ꮇ", "ꮈ", "ꮉ", "ꮊ", "ꮋ",
     "ꮌ", "ꮍ", "ꮎ", "ꮏ", "ꮐ", "ꮑ", "ꮒ", "ꮓ", "ꮔ", "ꮕ", "ꮖ", "ꮗ",
     "ꮘ", "ꮙ", "ꮚ", "ꮛ", "ꮜ", "ꮝ", "ꮞ", "ꮟ", "ꮠ", "ꮡ", "ꮢ", "ꮣ",
     "ꮤ", "ꮥ", "ꮦ", "ꮧ", "ꮨ", "ꮩ", "ꮪ", "ꮫ", "ꮬ", "ꮭ", "ꮮ", "ꮯ",
     "ꮰ", "ꮱ", "ꮲ", "ꮳ", "ꮴ", "ꮵ", "ꮶ", "ꮷ", "ꮸ", "ꮹ", "ꮺ", "ꮻ",
     "ꮼ", "ꮽ", "ꮾ", "ꮿ"}

\* str.lower() of one character, for the 655 characters it changes; the
\* capital sigma stands here with the small sigma, and LowerAt gives its
\* final form.
LowerChar ==
    (   ("A" :> "a" @@ "B" :> "b" @@ "C" :> "c" @@ "D" :> "d")
     @@ ("E" :> "e" @@ "F" :> "f" @@ "G" :> "g" @@ "H" :> "h")
     @@ ("I" :> "i" @@ "J" :> "j" @@ "K" :> "k" @@ "L" :> "l")
     @@ ("M" :> "m" @@ "N" :> "n" @@ "O" :> "o" @@ "P" :> "p")
     @@ ("Q" :> "q" @@ "R" :> "r" @@ "S" :> "s" @@ "T" :> "t")
     @@ ("U" :> "u" @@ "V" :> "v" @@ "W" :> "w" @@ "X" :> "x")
     @@ ("Y" :> "y" @@ "Z" :> "z" @@ "À" :> "à" @@ "Á" :> "á")
     @@ ("Â" :> "â" @@ "Ã" :> "ã" @@ "Ä" :> "ä" @@ "Å" :> "å")
     @@ ("Æ" :> "æ" @@ "Ç" :> "ç" @@ "È" :> "è" @@ "É" :> "é")
     @@ ("Ê" :> "ê" @@ "Ë" :> "ë" @@ "Ì" :> "ì" @@ "Í" :> "í")
     @@ ("Î" :> "î" @@ "Ï" :> "ï" @@ "Ð" :> "ð" @@ "Ñ" :> "ñ")
     @@ ("Ò" :> "ò" @@ "Ó" :> "ó" @@ "Ô" :> "ô" @@ "Õ" :> "õ")
     @@ ("Ö" :> "ö" @@ "Ø" :> "ø" @@ "Ù" :> "ù" @@ "Ú" :> "ú"))
 @@ (   ("Û" :> "û" @@ "Ü" :> "ü" @@ "Ý" :> "ý" @@ "Þ" :> "þ")
     @@ ("Ɓ" :> "�" @@ "Ƃ" :> "ƃ" @@ "Ƅ" :> "ƅ" @@ "Ɔ" :> "�")
     @@ ("Ƈ" :> "ƈ" @@ "Ɖ" :> "�" @@ "Ɗ" :> "�" @@ "Ƌ" :> "ƌ")
     @@ ("Ǝ" :> "ǝ" @@ "Ə" :> "�" @@ "Ɛ" :> "�" @@ "Ƒ" :> "ƒ")
     @@ ("Ɠ" :> "�" @@ "Ɣ" :> "�" @@ "Ɩ" :> "�" @@ "Ɨ" :> "�")
     @@ ("Ƙ" :> "ƙ" @@ "Ɯ" :> "�" @@ "Ɲ" :> "�" @@ "Ɵ" :> "�")
     @@ ("Ơ" :> "ơ" @@ "Ƣ" :> "ƣ" @@ "Ƥ" :> "ƥ" @@ "Ʀ" :> "ʀ")
     @@ ("Ƨ" :> "ƨ" @@ "Ʃ" :> "ʃ" @@ "Ƭ" :> "ƭ" @@ "Ʈ" :> "ʈ")
     @@ ("Ư" :> "ư" @@ "Ʊ" :> "ʊ" @@ "Ʋ" :> "ʋ" @@ "Ƴ" :> "ƴ")
     @@ ("Ƶ" :> "ƶ" @@ "Ʒ" :> "ʒ" @@ "Ƹ" :> "ƹ" @@ "Ƽ" :> "ƽ")
     @@ ("Ǆ" :> "ǆ" @@ "ǅ" :> "ǆ" @@ "Ǉ" :> "ǉ" @@ "ǈ" :> "ǉ")
     @@ ("Ǌ" :> "ǌ" @@ "ǋ" :> "ǌ" @@ "Ǎ" :> "ǎ" @@ "Ǐ" :> "ǐ")
     @@ ("Ǒ" :> "ǒ" @@ "Ǔ" :> "ǔ" @@ "Ǖ" :> "ǖ" @@ "Ǘ" :> "ǘ"))
 @@ (   ("Ǚ" :> "ǚ" @@ "Ǜ" :> "ǜ" @@ "Ǟ" :> "ǟ" @@ "Ǡ" :> "ǡ")
     @@ ("Ǣ" :> "ǣ" @@ "Ǥ" :> "ǥ" @@ "Ǧ" :> "ǧ" @@ "Ǩ" :> "ǩ")
     @@ ("Ǫ" :> "ǫ" @@ "Ǭ" :> "ǭ" @@ "Ǯ" :> "ǯ" @@ "Ǳ" :> "ǳ")
     @@ ("ǲ" :> "ǳ" @@ "Ǵ" :> "ǵ" @@ "Ƕ" :> "ƕ" @@ "Ƿ" :> "ƿ")
     @@ ("Ǹ" :> "ǹ" @@ "Ǻ" :> "ǻ" @@ "Ǽ" :> "ǽ" @@ "Ǿ" :> "ǿ")
     @@ ("Ά" :> "ά" @@ "Έ" :> "έ" @@ "Ή" :> "ή" @@ "Ί" :> "ί")
     @@ ("Ό" :> "ό" @@ "Ύ" :> "ύ" @@ "Ώ" :> "ώ" @@ "Α" :> "α")
     @@ ("Β" :> "β" @@ "Γ" :> "γ" @@ "Δ" :> "δ" @@ "Ε" :> "ε")
     @@ ("Ζ" :> "ζ" @@ "Η" :> "η" @@ "Θ" :> "θ" @@ "Ι" :> "ι")
     @@ ("Κ" :> "κ" @@ "Λ" :> "λ" @@ "Μ" :> "μ" @@ "Ν" :> "ν")
     @@ ("Ξ" :> "ξ" @@ "Ο" :> "ο" @@ "Π" :> "π" @@ "Ρ" :> "ρ")
     @@ ("Σ" :> "σ" @@ "Τ" :> "τ" @@ "Υ" :> "υ" @@ "Φ" :> "φ")
     @@ ("Χ" :> "χ" @@ "Ψ" :> "ψ" @@ "Ω" :> "ω" @@ "Ϊ" :> "ϊ"))
 @@ (   ("Ϋ" :> "ϋ" @@ "Ϗ" :> "ϗ" @@ "Ϙ" :> "ϙ" @@ "Ϛ" :> "ϛ")
     @@ ("Ϝ" :> "ϝ" @@ "Ϟ" :> "ϟ" @@ "Ϡ" :> "ϡ" @@ "Ϣ" :> "ϣ")
     @@ ("Ϥ" :> "ϥ" @@ "Ϧ" :> "ϧ" @@ "Ϩ" :> "ϩ" @@ "Ϫ" :> "ϫ")
     @@ ("Ϭ" :> "ϭ" @@ "Ϯ" :> "ϯ" @@ "ϴ" :> "θ" @@ "Ϸ" :> "ϸ")
     @@ ("Ϲ" :> "ϲ" @@ "Ϻ" :> "ϻ" @@ "Ͻ" :> "�" @@ "Ͼ" :> "�")
     @@ ("Ͽ" :> "�" @@ "Ҁ" :> "ҁ" @@ "Ҋ" :> "ҋ" @@ "Ҍ" :> "ҍ")
     @@ ("Ҏ" :> "ҏ" @@ "Ґ" :> "ґ" @@ "Ғ" :> "ғ" @@ "Ҕ" :> "ҕ")
     @@ ("Җ" :> "җ" @@ "Ҙ" :> "ҙ" @@ "Қ" :> "қ" @@ "Ҝ" :> "ҝ")
     @@ ("Ҟ" :> "ҟ" @@ "Ҡ" :> "ҡ" @@ "Ң" :> "ң" @@ "Ҥ" :> "ҥ")
     @@ ("Ҧ" :> "ҧ" @@ "Ҩ" :> "ҩ" @@ "Ҫ" :> "ҫ" @@ "Ҭ" :> "ҭ")
     @@ ("Ү" :> "ү" @@ "Ұ" :> "ұ" @@ "Ҳ" :> "ҳ" @@ "Ҵ" :> "ҵ")
     @@ ("Ҷ" :> "ҷ" @@ "Ҹ" :> "ҹ" @@ "Һ" :> "һ" @@ "Ҽ" :> "ҽ")
     @@ ("Ҿ" :> "ҿ" @@ "Ӏ" :> "ӏ" @@ "Ӂ" :> "ӂ" @@ "Ӄ" :> "ӄ"))
 @@ (   ("Ӆ" :> "ӆ" @@ "Ӈ" :> "ӈ" @@ "Ӊ" :> "ӊ" @@ "Ӌ" :> "ӌ")
     @@ ("Ӎ" :> "ӎ" @@ "Ӑ" :> "ӑ" @@ "Ӓ" :> "ӓ" @@ "Ӕ" :> "ӕ")
     @@ ("Ӗ" :> "ӗ" @@ "Ә" :> "ә" @@ "Ӛ" :> "ӛ" @@ "Ӝ" :> "ӝ")
     @@ ("Ӟ" :> "ӟ" @@ "Ӡ" :> "ӡ" @@ "Ӣ" :> "ӣ" @@ "Ӥ" :> "ӥ")
     @@ ("Ӧ" :> "ӧ" @@ "Ө" :> "ө" @@ "Ӫ" :> "ӫ" @@ "Ӭ" :> "ӭ")
     @@ ("Ӯ" :> "ӯ" @@ "Ӱ" :> "ӱ" @@ "Ӳ" :> "ӳ" @@ "Ӵ" :> "ӵ")
     @@ ("Ӷ" :> "ӷ" @@ "Ӹ" :> "ӹ" @@ "Ӻ" :> "ӻ" @@ "Ӽ" :> "ӽ")
     @@ ("Ӿ" :> "ӿ" @@ "Ⴀ" :> "�" @@ "Ⴁ" :> "�" @@ "Ⴂ" :> "�")
     @@ ("Ⴃ" :> "�" @@ "Ⴄ" :> "�" @@ "Ⴅ" :> "�" @@ "Ⴆ" :> "�")
     @@ ("Ⴇ" :> "�" @@ "Ⴈ" :> "�" @@ "Ⴉ" :> "�" @@ "Ⴊ" :> "�")
     @@ ("Ⴋ" :> "�" @@ "Ⴌ" :> "�" @@ "Ⴍ" :> "�" @@ "Ⴎ" :> "�")
     @@ ("Ⴏ" :> "�" @@ "Ⴐ" :> "�" @@ "Ⴑ" :> "�" @@ "Ⴒ" :> "�")
     @@ ("Ⴓ" :> "�" @@ "Ⴔ" :> "�" @@ "Ⴕ" :> "�" @@ "Ⴖ" :> "�"))
 @@ (   ("Ⴗ" :> "�" @@ "Ⴘ" :> "�" @@ "Ⴙ" :> "�" @@ "Ⴚ" :> "�")
     @@ ("Ⴛ" :> "�" @@ "Ⴜ" :> "�" @@ "Ⴝ" :> "�" @@ "Ⴞ" :> "�")
     @@ ("Ⴟ" :> "�" @@ "Ⴠ" :> "�" @@ "Ⴡ" :> "�" @@ "Ⴢ" :> "�")
     @@ ("Ⴣ" :> "�" @@ "Ⴤ" :> "�" @@ "Ⴥ" :> "�" @@ "Ⴧ" :> "�")
     @@ ("Ⴭ" :> "�" @@ "Ꭰ" :> "�" @@ "Ꭱ" :> "�" @@ "Ꭲ" :> "�")
     @@ ("Ꭳ" :> "�" @@ "Ꭴ" :> "�" @@ "Ꭵ" :> "�" @@ "Ꭶ" :> "�")
     @@ ("Ꭷ" :> "�" @@ "Ꭸ" :> "�" @@ "Ꭹ" :> "�" @@ "Ꭺ" :> "�")
     @@ ("Ꭻ" :> "�" @@ "Ꭼ" :> "�" @@ "Ꭽ" :> "�" @@ "Ꭾ" :> "�")
     @@ ("Ꭿ" :> "�" @@ "Ꮀ" :> "ꮀ" @@ "Ꮁ" :> "ꮁ" @@ "Ꮂ" :> "ꮂ")
     @@ ("Ꮃ" :> "ꮃ" @@ "Ꮄ" :> "ꮄ" @@ "Ꮅ" :> "ꮅ" @@ "Ꮆ" :> "ꮆ")
     @@ ("Ꮇ" :> "ꮇ" @@ "Ꮈ" :> "ꮈ" @@ "Ꮉ" :> "ꮉ" @@ "Ꮊ" :> "ꮊ")
     @@ ("Ꮋ" :> "ꮋ" @@ "Ꮌ" :> "ꮌ" @@ "Ꮍ" :> "ꮍ" @@ "Ꮎ" :> "ꮎ")
     @@ ("Ꮏ" :> "ꮏ" @@ "Ꮐ" :> "ꮐ" @@ "Ꮑ" :> "ꮑ" @@ "Ꮒ" :> "ꮒ"))
 @@ (   ("Ꮓ" :> "ꮓ" @@ "Ꮔ" :> "ꮔ" @@ "Ꮕ" :> "ꮕ" @@ "Ꮖ" :> "ꮖ")
     @@ ("Ꮗ" :> "ꮗ" @@ "Ꮘ" :> "ꮘ" @@ "Ꮙ" :> "ꮙ" @@ "Ꮚ" :> "ꮚ")
     @@ ("Ꮛ" :> "ꮛ" @@ "Ꮜ" :> "ꮜ" @@ "Ꮝ" :> "ꮝ" @@ "Ꮞ" :> "ꮞ")
     @@ ("Ꮟ" :> "ꮟ" @@ "Ꮠ" :> "ꮠ" @@ "Ꮡ" :> "ꮡ" @@ "Ꮢ" :> "ꮢ")
     @@ ("Ꮣ" :> "ꮣ" @@ "Ꮤ" :> "ꮤ" @@ "Ꮥ" :> "ꮥ" @@ "Ꮦ" :> "ꮦ")
     @@ ("Ꮧ" :> "ꮧ" @@ "Ꮨ" :> "ꮨ" @@ "Ꮩ" :> "ꮩ" @@ "Ꮪ" :> "ꮪ")
     @@ ("Ꮫ" :> "ꮫ" @@ "Ꮬ" :> "ꮬ" @@ "Ꮭ" :> "ꮭ" @@ "Ꮮ" :> "ꮮ")
     @@ ("Ꮯ" :> "ꮯ" @@ "Ꮰ" :> "ꮰ" @@ "Ꮱ" :> "ꮱ" @@ "Ꮲ" :> "ꮲ")
     @@ ("Ꮳ" :> "ꮳ" @@ "Ꮴ" :> "ꮴ" @@ "Ꮵ" :> "ꮵ" @@ "Ꮶ" :> "ꮶ")
     @@ ("Ꮷ" :> "ꮷ" @@ "Ꮸ" :> "ꮸ" @@ "Ꮹ" :> "ꮹ" @@ "Ꮺ" :> "ꮺ")
     @@ ("Ꮻ" :> "ꮻ" @@ "Ꮼ" :> "ꮼ" @@ "Ꮽ" :> "ꮽ" @@ "Ꮾ" :> "ꮾ")
     @@ ("Ꮿ" :> "ꮿ" @@ "Ᏸ" :> "ᏸ" @@ "Ᏹ" :> "ᏹ" @@ "Ᏺ" :> "ᏺ")
     @@ ("Ᏻ" :> "ᏻ" @@ "Ᏼ" :> "ᏼ" @@ "Ᏽ" :> "ᏽ" @@ "Ა" :> "ა"))
 @@ (   ("Ბ" :> "ბ" @@ "Გ" :> "გ" @@ "Დ" :> "დ" @@ "Ე" :> "ე")
     @@ ("Ვ" :> "ვ" @@ "Ზ" :> "ზ" @@ "Თ" :> "თ" @@ "Ი" :> "ი")
     @@ ("Კ" :> "კ" @@ "Ლ" :> "ლ" @@ "Მ" :> "მ" @@ "Ნ" :> "ნ")
     @@ ("Ო" :> "ო" @@ "Პ" :> "პ" @@ "Ჟ" :> "ჟ" @@ "Რ" :> "რ")
     @@ ("Ს" :> "ს" @@ "Ტ" :> "ტ" @@ "Უ" :> "უ" @@ "Ფ" :> "ფ")
     @@ ("Ქ" :> "ქ" @@ "Ღ" :> "ღ" @@ "Ყ" :> "ყ" @@ "Შ" :> "შ")
     @@ ("Ჩ" :> "ჩ" @@ "Ც" :> "ც" @@ "Ძ" :> "ძ" @@ "Წ" :> "წ")
     @@ ("Ჭ" :> "ჭ" @@ "Ხ" :> "ხ" @@ "Ჯ" :> "ჯ" @@ "Ჰ" :> "ჰ")
     @@ ("Ჱ" :> "ჱ" @@ "Ჲ" :> "ჲ" @@ "Ჳ" :> "ჳ" @@ "Ჴ" :> "ჴ")
     @@ ("Ჵ" :> "ჵ" @@ "Ჶ" :> "ჶ" @@ "Ჷ" :> "ჷ" @@ "Ჸ" :> "ჸ")
     @@ ("Ჹ" :> "ჹ" @@ "Ჺ" :> "ჺ" @@ "Ჽ" :> "ჽ" @@ "Ჾ" :> "ჾ")
     @@ ("Ჿ" :> "ჿ" @@ "Ẁ" :> "ẁ" @@ "Ẃ" :> "ẃ" @@ "Ẅ" :> "ẅ")
     @@ ("Ẇ" :> "ẇ" @@ "Ẉ" :> "ẉ" @@ "Ẋ" :> "ẋ" @@ "Ẍ" :> "ẍ"))
 @@ (   ("Ẏ" :> "ẏ" @@ "Ẑ" :> "ẑ" @@ "Ẓ" :> "ẓ" @@ "Ẕ" :> "ẕ")
     @@ ("ẞ" :> "ß" @@ "Ạ" :> "ạ" @@ "Ả" :> "ả" @@ "Ấ" :> "ấ")
     @@ ("Ầ" :> "ầ" @@ "Ẩ" :> "ẩ" @@ "Ẫ" :> "ẫ" @@ "Ậ" :> "ậ")
     @@ ("Ắ" :> "ắ" @@ "Ằ" :> "ằ" @@ "Ẳ" :> "ẳ" @@ "Ẵ" :> "ẵ")
     @@ ("Ặ" :> "ặ" @@ "Ẹ" :> "ẹ" @@ "Ẻ" :> "ẻ" @@ "Ẽ" :> "ẽ")
     @@ ("Ế" :> "ế" @@ "Ề" :> "ề" @@ "Ể" :> "ể" @@ "Ễ" :> "ễ")
     @@ ("Ệ" :> "ệ" @@ "Ỉ" :> "ỉ" @@ "Ị" :> "ị" @@ "Ọ" :> "ọ")
     @@ ("Ỏ" :> "ỏ" @@ "Ố" :> "ố" @@ "Ồ" :> "ồ" @@ "Ổ" :> "ổ")
     @@ ("Ỗ" :> "ỗ" @@ "Ộ" :> "ộ" @@ "Ớ" :> "ớ" @@ "Ờ" :> "ờ")
     @@ ("Ở" :> "ở" @@ "Ỡ" :> "ỡ" @@ "Ợ" :> "ợ" @@ "Ụ" :> "ụ")
     @@ ("Ủ" :> "ủ" @@ "Ứ" :> "ứ" @@ "Ừ" :> "ừ" @@ "Ử" :> "ử")
     @@ ("Ữ" :> "ữ" @@ "Ự" :> "ự" @@ "Ỳ" :> "ỳ" @@ "Ỵ" :> "ỵ")
     @@ ("Ỷ" :> "ỷ" @@ "Ỹ" :> "ỹ" @@ "Ỻ" :> "ỻ" @@ "Ỽ" :> "ỽ"))
 @@ (   ("Ỿ" :> "ỿ" @@ "ᾈ" :> "ᾀ" @@ "ᾉ" :> "ᾁ" @@ "ᾊ" :> "ᾂ")
     @@ ("ᾋ" :> "ᾃ" @@ "ᾌ" :> "ᾄ" @@ "ᾍ" :> "ᾅ" @@ "ᾎ" :> "ᾆ")
     @@ ("ᾏ" :> "ᾇ" @@ "ᾘ" :> "ᾐ" @@ "ᾙ" :> "ᾑ" @@ "ᾚ" :> "ᾒ")
     @@ ("ᾛ" :> "ᾓ" @@ "ᾜ" :> "ᾔ" @@ "ᾝ" :> "ᾕ" @@ "ᾞ" :> "ᾖ")
     @@ ("ᾟ" :> "ᾗ" @@ "ᾨ" :> "ᾠ" @@ "ᾩ" :> "ᾡ" @@ "ᾪ" :> "ᾢ")
     @@ ("ᾫ" :> "ᾣ" @@ "ᾬ" :> "ᾤ" @@ "ᾭ" :> "ᾥ" @@ "ᾮ" :> "ᾦ")
     @@ ("ᾯ" :> "ᾧ" @@ "Ᾰ" :> "ᾰ" @@ "Ᾱ" :> "ᾱ" @@ "Ὰ" :> "�")
     @@ ("Ά" :> "�" @@ "ᾼ" :> "ᾳ" @@ "Ὲ" :> "�" @@ "Έ" :> "�")
     @@ ("Ὴ" :> "�" @@ "Ή" :> "�" @@ "ῌ" :> "ῃ" @@ "Ῐ" :> "ῐ")
     @@ ("Ῑ" :> "ῑ" @@ "Ὶ" :> "�" @@ "Ί" :> "�" @@ "Ῠ" :> "ῠ")
     @@ ("Ῡ" :> "ῡ" @@ "Ὺ" :> "�" @@ "Ύ" :> "�" @@ "Ῥ" :> "ῥ")
     @@ ("Ὸ" :> "�" @@ "Ό" :> "�" @@ "Ὼ" :> "�" @@ "Ώ" :> "�")
     @@ ("ῼ" :> "ῳ" @@ "Ↄ" :> "ↄ" @@ "Ⓐ" :> "ⓐ" @@ "Ⓑ" :> "ⓑ"))
 @@ (   ("Ⓒ" :> "ⓒ" @@ "Ⓓ" :> "ⓓ" @@ "Ⓔ" :> "ⓔ" @@ "Ⓕ" :> "ⓕ")
     @@ ("Ⓖ" :> "ⓖ" @@ "Ⓗ" :> "ⓗ" @@ "Ⓘ" :> "ⓘ" @@ "Ⓙ" :> "ⓙ")
     @@ ("Ⓚ" :> "ⓚ" @@ "Ⓛ" :> "ⓛ" @@ "Ⓜ" :> "ⓜ" @@ "Ⓝ" :> "ⓝ")
     @@ ("Ⓞ" :> "ⓞ" @@ "Ⓟ" :> "ⓟ" @@ "Ⓠ" :> "ⓠ" @@ "Ⓡ" :> "ⓡ")
     @@ ("Ⓢ" :> "ⓢ" @@ "Ⓣ" :> "ⓣ" @@ "Ⓤ" :> "ⓤ" @@ "Ⓥ" :> "ⓥ")
     @@ ("Ⓦ" :> "ⓦ" @@ "Ⓧ" :> "ⓧ" @@ "Ⓨ" :> "ⓨ" @@ "Ⓩ" :> "ⓩ")
     @@ ("Ⲁ" :> "ⲁ" @@ "Ⲃ" :> "ⲃ" @@ "Ⲅ" :> "ⲅ" @@ "Ⲇ" :> "ⲇ")
     @@ ("Ⲉ" :> "ⲉ" @@ "Ⲋ" :> "ⲋ" @@ "Ⲍ" :> "ⲍ" @@ "Ⲏ" :> "ⲏ")
     @@ ("Ⲑ" :> "ⲑ" @@ "Ⲓ" :> "ⲓ" @@ "Ⲕ" :> "ⲕ" @@ "Ⲗ" :> "ⲗ")
     @@ ("Ⲙ" :> "ⲙ" @@ "Ⲛ" :> "ⲛ" @@ "Ⲝ" :> "ⲝ" @@ "Ⲟ" :> "ⲟ")
     @@ ("Ⲡ" :> "ⲡ" @@ "Ⲣ" :> "ⲣ" @@ "Ⲥ" :> "ⲥ" @@ "Ⲧ" :> "ⲧ")
     @@ ("Ⲩ" :> "ⲩ" @@ "Ⲫ" :> "ⲫ" @@ "Ⲭ" :> "ⲭ" @@ "Ⲯ" :> "ⲯ")
     @@ ("Ⲱ" :> "ⲱ" @@ "Ⲳ" :> "ⲳ" @@ "Ⲵ" :> "ⲵ" @@ "Ⲷ" :> "ⲷ"))
 @@ (   ("Ⲹ" :> "ⲹ" @@ "Ⲻ" :> "ⲻ" @@ "Ⲽ" :> "ⲽ" @@ "Ⲿ" :> "ⲿ")
     @@ ("Ⳁ" :> "ⳁ" @@ "Ⳃ" :> "ⳃ" @@ "Ⳅ" :> "ⳅ" @@ "Ⳇ" :> "ⳇ")
     @@ ("Ⳉ" :> "ⳉ" @@ "Ⳋ" :> "ⳋ" @@ "Ⳍ" :> "ⳍ" @@ "Ⳏ" :> "ⳏ")
     @@ ("Ⳑ" :> "ⳑ" @@ "Ⳓ" :> "ⳓ" @@ "Ⳕ" :> "ⳕ" @@ "Ⳗ" :> "ⳗ")
     @@ ("Ⳙ" :> "ⳙ" @@ "Ⳛ" :> "ⳛ" @@ "Ⳝ" :> "ⳝ" @@ "Ⳟ" :> "ⳟ")
     @@ ("Ⳡ" :> "ⳡ" @@ "Ⳣ" :> "ⳣ" @@ "Ⳬ" :> "ⳬ" @@ "Ⳮ" :> "ⳮ")
     @@ ("Ⳳ" :> "ⳳ" @@ "Ꚁ" :> "ꚁ" @@ "Ꚃ" :> "ꚃ" @@ "Ꚅ" :> "ꚅ")
     @@ ("Ꚇ" :> "ꚇ" @@ "Ꚉ" :> "ꚉ" @@ "Ꚋ" :> "ꚋ" @@ "Ꚍ" :> "ꚍ")
     @@ ("Ꚏ" :> "ꚏ" @@ "Ꚑ" :> "ꚑ" @@ "Ꚓ" :> "ꚓ" @@ "Ꚕ" :> "ꚕ")
     @@ ("Ꚗ" :> "ꚗ" @@ "Ꚙ" :> "ꚙ" @@ "Ꚛ" :> "ꚛ" @@ "Ꞁ" :> "ꞁ")
     @@ ("Ꞃ" :> "ꞃ" @@ "Ꞅ" :> "ꞅ" @@ "Ꞇ" :> "ꞇ" @@ "Ꞌ" :> "ꞌ")
     @@ ("Ɥ" :> "�" @@ "Ꞑ" :> "ꞑ" @@ "Ꞓ" :> "ꞓ" @@ "Ꞗ" :> "ꞗ")
     @@ ("Ꞙ" :> "ꞙ" @@ "Ꞛ" :> "ꞛ" @@ "Ꞝ" :> "ꞝ" @@ "Ꞟ" :> "ꞟ"))
 @@ (   ("Ꞡ" :> "ꞡ" @@ "Ꞣ" :> "ꞣ" @@ "Ꞥ" :> "ꞥ" @@ "Ꞧ" :> "ꞧ")
     @@ ("Ꞩ" :> "ꞩ" @@ "Ɦ" :> "�" @@ "Ɜ" :> "�" @@ "Ɡ" :> "�")
     @@ ("Ɬ" :> "�" @@ "Ɪ" :> "�" @@ "Ʞ" :> "ʞ" @@ "Ʇ" :> "ʇ")
     @@ ("Ʝ" :> "ʝ" @@ "Ꭓ" :> "�" @@ "Ꞵ" :> "ꞵ" @@ "Ꞷ" :> "ꞷ")
     @@ ("Ꞹ" :> "ꞹ" @@ "Ꞻ" :> "ꞻ" @@ "Ꞽ" :> "ꞽ" @@ "Ꞿ" :> "ꞿ")
     @@ ("Ꟁ" :> "ꟁ" @@ "Ꟃ" :> "ꟃ" @@ "Ꞔ" :> "ꞔ" @@ "Ʂ" :> "ʂ")
     @@ ("Ᶎ" :> "ᶎ" @@ "Ꟈ" :> "ꟈ" @@ "Ꟊ" :> "ꟊ" @@ "Ꟑ" :> "ꟑ")
     @@ ("Ꟗ" :> "ꟗ" @@ "Ꟙ" :> "ꟙ" @@ "Ꟶ" :> "ꟶ"))

\* The capital sigma at position i of s is in the final position: a cased
\* character stands before it, and none after it, case-ignorable characters
\* set aside.
FinalSigma(s, i) ==
    /\ \E j \in 1..(i - 1) :
           /\ CharAt(s, j) \in Cased
           /\ \A k \in (j + 1)..(i - 1) : CharAt(s, k) \in CaseIgnorable
    /\ ~\E j \in (i + 1)..Len(s) :
           /\ CharAt(s, j) \in Cased
           /\ \A k \in (i + 1)..(j - 1) : CharAt(s, k) \in CaseIgnorable

\* str.lower() of the character at position i of s.
LowerAt(s, i) ==
    IF CharAt(s, i) = "Σ" THEN (IF FinalSigma(s, i) THEN "ς" ELSE "σ")
    ELSE IF CharAt(s, i) \in DOMAIN LowerChar THEN LowerChar[CharAt(s, i)]
    ELSE CharAt(s, i)

\* str.lower() of the characters of s from position a to position b.
RECURSIVE LowerBetween(_, _, _)
LowerBetween(s, a, b) ==
    IF a > b THEN ""
    ELSE IF a = b THEN LowerAt(s, a)
    ELSE LowerBetween(s, a, (a + b) \div 2) \o LowerBetween(s, (a + b) \div 2 + 1, b)

\* str.lower()
lower(s) == LowerBetween(s, 1, Len(s))
\* k in s
Contains(k, s) ==
    \E i \in 1..(Len(s) - Len(k) + 1) : SubSeq(s, i, i + Len(k) - 1) = k

\* s.startswith(p), s.endswith(p)
startswith(s, p) == Len(p) <= Len(s) /\ SubSeq(s, 1, Len(p)) = p
endswith(s, p) == Len(p) <= Len(s) /\ SubSeq(s, Len(s) - Len(p) + 1, Len(s)) = p

\* The characters for which str.isspace() holds, which str.strip() removes:
\* space, \t, \n, \r, \f, the vertical tab U+000B, the separators U+001C to
\* U+001F, the next-line character U+0085, the no-break space U+00A0 and
\* the ogham space mark U+1680.
Whitespace ==
    {" ", "\t", "\n", "\r", "\f", "", "", "", "", "",
     "", " ", " "}

IsBlank(s) == \A i \in 1..Len(s) : CharAt(s, i) \in Whitespace

\* str.strip()
strip(s) ==
    IF IsBlank(s) THEN ""
    ELSE LET first == CHOOSE i \in 1..Len(s) :
                          /\ CharAt(s, i) \notin Whitespace
                          /\ \A j \in 1..(i - 1) : CharAt(s, j) \in Whitespace
             lst   == CHOOSE i \in 1..Len(s) :
                          /\ CharAt(s, i) \notin Whitespace
                          /\ \A j \in (i + 1)..Len(s) : CharAt(s, j) \in Whitespace
         IN  SubSeq(s, first, lst)

\* The pieces of s between the positions of cuts, which begin with 0 and
\* end with Len(s) + 1.
SplitAt(s, cuts) ==
    [k \in 1..(Len(cuts) - 1) |-> SubSeq(s, cuts[k] + 1, cuts[k + 1] - 1)]

\* The pieces of s between the characters of seps, in order.
SplitOn(s, seps) ==
    SplitAt(s, <<0>> \o SelectSeq([i \in 1..Len(s) |-> i],
                                  LAMBDA i : CharAt(s, i) \in seps)
                   \o <<Len(s) + 1>>)

(***************************************************************************)
(* The embedded engine behind self.conn (DuckDB), on the statements the    *)
(* model follows:                                                          *)
(*     SELECT <column|*> FROM <table>                                      *)
(*     SELECT COUNT(...) as count FROM <table>, counting all rows          *)
(*     DESCRIBE <table>                                                    *)
(*     SHOW TABLES                                                         *)
(*     CREATE OR REPLACE TABLE <table> AS SELECT * FROM read_csv_auto(?)   *)
(*     COPY <table> FROM '<file>'                                          *)
(*     DELETE FROM <table>                                                 *)
(*     DROP TABLE <table>                                                  *)
(* and EXPLAIN in front of any of them.  execute() parses the whole text   *)
(* first; it then runs the statements of the text in order, planning only  *)
(* a statement that stands under EXPLAIN, and stops at the first one that  *)
(* fails.  A store is a function from the lower-cased table identifier to  *)
(* [name, columns, row_count].                                             *)
(***************************************************************************)
SchemaA == <<[name |-> "id", type |-> "BIGINT"], [name |-> "amount", type |-> "DOUBLE"]>>
SchemaB == <<[name |-> "name", type |-> "VARCHAR"]>>

\* The files on disk: path -> [readable, columns, rows].
Disk ==
    ("data/sales.csv" :> [readable |-> TRUE, columns |-> SchemaA, rows |-> 1])
    @@ ("new/sales.csv" :> [readable |-> TRUE, columns |-> SchemaB, rows |-> 2])
    @@ ("up/2024 q1.csv" :> [readable |-> TRUE, columns |-> SchemaB, rows |-> 3])
    @@ ("up/2024-q1.csv" :> [readable |-> TRUE, columns |-> SchemaA, rows |-> 0])
    @@ ("up/locked.csv" :> [readable |-> FALSE, columns |-> SchemaB, rows |-> 1])

Statements(text) == SelectSeq(SplitOn(text, {";"}), LAMBDA w : ~IsBlank(w))

Words(stmt) == SelectSeq(SplitOn(stmt, Whitespace), LAMBDA w : w # "")

Digits == {"0", "1", "2", "3", "4", "5", "6", "7", "8", "9"}

Letters ==
    {"a", "b", "c", "d", "e", "f", "g", "h", "i", "j", "k", "l", "m", "n", "o",
     "p", "q", "r", "s", "t", "u", "v", "w", "x", "y", "z",
     "A", "B", "C", "D", "E", "F", "G", "H", "I", "J", "K", "L", "M", "N", "O",
     "P", "Q", "R", "S", "T", "U", "V", "W", "X", "Y", "Z"}

ReservedWords == {"select", "from", "table", "order", "group", "where"}

IsIdentifier(w) ==
    /\ w # ""
    /\ \A i \in 1..Len(w) : CharAt(w, i) \in Letters \cup Digits \cup {"_"}
    /\ CharAt(w, 1) \notin Digits
    /\ lower(w) \notin ReservedWords

\* A string literal, and the text it holds.
IsQuoted(w) == Len(w) >= 2 /\ CharAt(w, 1) = "'" /\ CharAt(w, Len(w)) = "'"
Unquote(w) == SubSeq(w, 2, Len(w) - 1)

\* A text of digits, and the number it writes.
IsNumber(w) == w # "" /\ \A i \in 1..Len(w) : CharAt(w, i) \in Digits

DigitValue(c) == CHOOSE n \in 0..9 : <<"0", "1", "2", "3", "4", "5", "6", "7", "8", "9">>[n + 1] = c

RECURSIVE NumberOf(_)
NumberOf(w) ==
    IF w = "" THEN 0
    ELSE NumberOf(SubSeq(w, 1, Len(w) - 1)) * 10 + DigitValue(CharAt(w, Len(w)))

\* limit is the number of a LIMIT clause, -1 when the statement has none.
Stmt(kind, table, column, file) ==
    [kind |-> kind, name |-> table, table |-> lower(table),
     column |-> lower(column), file |-> file, explain |-> FALSE, limit |-> -1]

ParseError == Stmt("error", "", "", "")

\* Keywords and unquoted identifiers are case-insensitive; lw holds the
\* words of w in lower case.
ParseLowered(w, lw) ==
    CASE Len(w) = 4 /\ lw[1] = "select" /\ lw[3] = "from"
            /\ IsIdentifier(w[4]) /\ (w[2] = "*" \/ IsIdentifier(w[2])) ->
            Stmt("select", w[4], w[2], "")
      [] Len(w) = 6 /\ lw[1] = "select" /\ lw[3] = "from"
            /\ IsIdentifier(w[4]) /\ (w[2] = "*" \/ IsIdentifier(w[2]))
            /\ lw[5] = "limit" /\ IsNumber(w[6]) ->
            [Stmt("select", w[4], w[2], "") EXCEPT !.limit = NumberOf(w[6])]
      [] Len(w) = 6 /\ lw[1] = "select" /\ lw[2] = "count(*)" /\ lw[3] = "as"
            /\ lw[4] = "count" /\ lw[5] = "from" /\ IsIdentifier(w[6]) ->
            Stmt("count", w[6], "", "")
      [] Len(w) = 2 /\ lw[1] = "describe" /\ IsIdentifier(w[2]) ->
            Stmt("describe", w[2], "", "")
      [] Len(w) = 2 /\ lw[1] = "show" /\ lw[2] = "tables" ->
            Stmt("show", "", "", "")
      [] Len(w) = 10 /\ lw[1] = "create" /\ lw[2] = "or" /\ lw[3] = "replace"
            /\ lw[4] = "table" /\ IsIdentifier(w[5]) /\ lw[6] = "as"
            /\ lw[7] = "select" /\ lw[8] = "*" /\ lw[9] = "from"
            /\ lw[10] = "read_csv_auto(?)" ->
            Stmt("ctas", w[5], "", "")
      [] Len(w) = 4 /\ lw[1] = "copy" /\ IsIdentifier(w[2]) /\ lw[3] = "from"
            /\ IsQuoted(w[4]) ->
            Stmt("copy", w[2], "", Unquote(w[4]))
      [] Len(w) = 3 /\ lw[1] = "delete" /\ lw[2] = "from" /\ IsIdentifier(w[3]) ->
            Stmt("delete", w[3], "", "")
      [] Len(w) = 3 /\ lw[1] = "drop" /\ lw[2] = "table" /\ IsIdentifier(w[3]) ->
            Stmt("drop", w[3], "", "")
      [] OTHER -> ParseError

ParseWords(w) ==
    LET Lowered[i \in 0..Len(w)] ==
            IF i = 0 THEN <<>> ELSE Append(Lowered[i - 1], lower(w[i]))
    IN  ParseLowered(w, Lowered[Len(w)])

IsExplain(w) == w # <<>> /\ lower(w[1]) = "explain"

ParseExplain(w) ==
    [ParseWords(IF IsExplain(w) THEN Tail(w) ELSE w) EXCEPT !.explain = IsExplain(w)]

ParseStatement(stmt) == ParseExplain(Words(stmt))

ColumnNames(t) == {lower(t.columns[i].name) : i \in 1..Len(t.columns)}

Readable(file) == file \in DOMAIN Disk /\ Disk[file].readable

\* "" when statement p binds against the store, the engine's error otherwise.
BindError(p, params, tbls) ==
    IF p.kind = "ctas"
    THEN IF params = <<>> THEN "Invalid Input Error"
         ELSE IF ~Readable(params[1]) THEN "IO Error"
         ELSE ""
    ELSE IF p.kind = "show" THEN ""
    ELSE IF p.table \notin DOMAIN tbls THEN "Catalog Error"
    ELSE IF /\ p.kind = "select"
            /\ p.column # "*"
            /\ p.column \notin ColumnNames(tbls[p.table])
    THEN "Binder Error"
    ELSE IF p.kind = "copy" /\ ~Readable(p.file) THEN "IO Error"
    ELSE IF /\ p.kind = "copy"
            /\ Len(Disk[p.file].columns) # Len(tbls[p.table].columns)
    THEN "Invalid Input Error"
    ELSE ""

\* The store after statement p ran.
Effect(p, params, tbls) ==
    CASE p.kind = "ctas" ->
            [t \in DOMAIN tbls \cup {p.table} |->
                IF t = p.table
                THEN [name      |-> p.name,
                      columns   |-> Disk[params[1]].columns,
                      row_count |-> Disk[params[1]].rows]
                ELSE tbls[t]]
      [] p.kind = "copy" ->
            [tbls EXCEPT ![p.table].row_count = @ + Disk[p.file].rows]
      [] p.kind = "delete" ->
            [tbls EXCEPT ![p.table].row_count = 0]
      [] p.kind = "drop" ->
            [t \in DOMAIN tbls \ {p.table} |-> tbls[t]]
      [] OTHER -> tbls

\* The elements of a finite set as a sequence.
RECURSIVE SeqOf(_)
SeqOf(S) ==
    IF S = {} THEN <<>>
    ELSE LET x == CHOOSE y \in S : TRUE IN <<x>> \o SeqOf(S \ {x})

\* The rows statement p returns.
ResultOf(p, tbls) ==
    CASE p.kind = "select"   ->
            [rows  |-> IF p.limit # -1 /\ p.limit < tbls[p.table].row_count
                       THEN p.limit
                       ELSE tbls[p.table].row_count,
             value |-> <<>>]
      [] p.kind = "count"    -> [rows |-> 1, value |-> <<tbls[p.table].row_count>>]
      [] p.kind = "describe" -> [rows  |-> Len(tbls[p.table].columns),
                                 value |-> tbls[p.table].columns]
      [] p.kind = "show"     ->
            [rows  |-> Cardinality(DOMAIN tbls),
             value |-> SeqOf({tbls[t].name : t \in DOMAIN tbls})]
      [] OTHER               -> [rows |-> 1, value |-> <<>>]

EngineStart(tbls) ==
    [ok |-> TRUE, err |-> "", tables |-> tbls, ran |-> <<>>,
     rows |-> 0, value |-> <<>>]

EngineError(msg, tbls) ==
    [ok |-> FALSE, err |-> msg, tables |-> tbls, ran |-> <<>>,
     rows |-> 0, value |-> <<>>]

\* Statement p ran: res is what it returned, after is the store it left.
StepRan(prev, stmt, after, res) ==
    [ok |-> TRUE, err |-> "", tables |-> after,
     ran |-> Append(prev.ran, strip(stmt)), rows |-> res.rows, value |-> res.value]

\* Statement p, the text stmt, after the statements that gave prev; e is
\* its bind error.
StepBound(prev, p, stmt, params, e) ==
    IF e # ""
    THEN [prev EXCEPT !.ok = FALSE, !.err = e, !.rows = 0, !.value = <<>>]
    ELSE IF p.explain
    THEN [prev EXCEPT !.rows = 1, !.value = <<>>]
    ELSE StepRan(prev, stmt, Effect(p, params, prev.tables), ResultOf(p, prev.tables))

EngineStep(prev, p, stmt, params) ==
    IF ~prev.ok THEN prev
    ELSE StepBound(prev, p, stmt, params, BindError(p, params, prev.tables))

\* The statements stmts, parsed as parsed, run in order.
EngineRun(stmts, parsed, params, isOpen, tbls) ==
    LET Run[i \in 0..Len(stmts)] ==
            IF i = 0 THEN EngineStart(tbls)
            ELSE EngineStep(Run[i - 1], parsed[i], stmts[i], params)
    IN  IF ~isOpen THEN EngineError("Connection Error", tbls)
        ELSE IF stmts = <<>> \/ \E i \in 1..Len(stmts) : parsed[i].kind = "error"
        THEN EngineError("Parser Error", tbls)
        ELSE Run[Len(stmts)]

EngineParse(stmts, params, isOpen, tbls) ==
    LET Parsed[i \in 0..Len(stmts)] ==
            IF i = 0 THEN <<>> ELSE Append(Parsed[i - 1], ParseStatement(stmts[i]))
    IN  EngineRun(stmts, Parsed[Len(stmts)], params, isOpen, tbls)

\* self.conn.execute(text, params)
EngineExecuteP(text, params, isOpen, tbls) ==
    EngineParse(Statements(text), params, isOpen, tbls)

\* self.conn.execute(text)
EngineExecute(text, isOpen, tbls) == EngineExecuteP(text, <<>>, isOpen, tbls)

(***************************************************************************)
(* The safety validator.  A verdict holds, beside what validate_sql        *)
(* returns, the checks it evaluated, the texts it handed to the engine and *)
(* the statements the engine ran for them.                                 *)
(***************************************************************************)
\* Variant of sqlparse_parse: a statement for every text that is not empty.
ParseAnyText(sql_query) ==
    IF sql_query = "" THEN <<>> ELSE <<sql_query>>

\* Stands for what sqlparse.parse raises on: an argument that is no text
\* (the marker alone), or the part of a text that is nested deeper than the
\* parser groups.
Unparseable == "<sqlparse.parse raises>"

\* sqlparse.parse raises on the argument.
Raises(sql_query) == Contains(Unparseable, sql_query)

\* What sqlparse_parse gives when sqlparse.parse raised.
ParseRaised == <<"raised", Unparseable>>

\* sqlparse.parse: the statements of the text, none for a text that holds
\* only whitespace.  The code reads only whether there is one.
sqlparse_parse(sql_query) ==
    IF Raises(sql_query) THEN ParseRaised
    ELSE IF IsBlank(sql_query) THEN <<>> ELSE <<sql_query>>

\* Variant of dangerous_keywords: EXECUTE stands before EXEC.
KeywordsLongestFirst ==
    <<"DROP", "DELETE", "INSERT", "UPDATE", "ALTER", "CREATE", "TRUNCATE",
      "EXECUTE", "EXEC", "CALL", "GRANT", "REVOKE">>

dangerous_keywords ==
    <<"DROP", "DELETE", "INSERT", "UPDATE", "ALTER", "CREATE", "TRUNCATE",
      "EXEC", "EXECUTE", "CALL", "GRANT", "REVOKE">>

\* The least element of a non-empty set of numbers.
Least(S) == CHOOSE i \in S : \A j \in S : i <= j

FirstOf(hits) == IF hits = {} THEN 0 ELSE Least(hits)

\* Variant of DenyListScan: a keyword counts only as a whole word.
ScanWholeWords(upper_sql) ==
    FirstOf({i \in 1..Len(dangerous_keywords) :
                 \E j \in 1..Len(Words(upper_sql)) :
                     Words(upper_sql)[j] = dangerous_keywords[i]})

\* The places of keyword i in the text.
PlacesOf(i, upper_sql) ==
    {p \in 1..(Len(upper_sql) - Len(dangerous_keywords[i]) + 1) :
         SubSeq(upper_sql, p, p + Len(dangerous_keywords[i]) - 1) = dangerous_keywords[i]}

StandsBefore(i, j, upper_sql) ==
    \/ Least(PlacesOf(i, upper_sql)) < Least(PlacesOf(j, upper_sql))
    \/ Least(PlacesOf(i, upper_sql)) = Least(PlacesOf(j, upper_sql)) /\ i <= j

\* Variant of DenyListScan: the keyword that stands first in the text.
ScanFirstInText(upper_sql) ==
    IF \A i \in 1..Len(dangerous_keywords) : PlacesOf(i, upper_sql) = {}
    THEN 0
    ELSE CHOOSE i \in 1..Len(dangerous_keywords) :
             /\ PlacesOf(i, upper_sql) # {}
             /\ \A j \in 1..Len(dangerous_keywords) :
                    PlacesOf(j, upper_sql) # {} => StandsBefore(i, j, upper_sql)

\* The index of the keyword the scan loop returns on, 0 when it ends.
DenyListScan(upper_sql) ==
    FirstOf({i \in 1..Len(dangerous_keywords) :
                 Contains(dangerous_keywords[i], upper_sql)})

NoReason == [prefix |-> None, detail |-> ""]

\* Lines 210-234, on what the parser, the scan and the dry run gave.
ValidateChecks(tbls, parsed, k, explained, dry) ==
    IF parsed = ParseRaised
    THEN [valid  |-> FALSE,
          reason |-> [prefix |-> "Validation error: ", detail |-> Unparseable],
          checks |-> <<"parse">>,
          engine |-> <<>>,
          ran    |-> <<>>,
          tables |-> tbls]
    ELSE IF parsed = <<>>
    THEN [valid  |-> FALSE,
          reason |-> [prefix |-> "Empty SQL query", detail |-> ""],
          checks |-> <<"parse">>,
          engine |-> <<>>,
          ran    |-> <<>>,
          tables |-> tbls]
    ELSE IF k # 0
    THEN [valid  |-> FALSE,
          reason |-> [prefix |-> "Dangerous operation detected: ",
                      detail |-> dangerous_keywords[k]],
          checks |-> <<"parse", "deny-list">>,
          engine |-> <<>>,
          ran    |-> <<>>,
          tables |-> tbls]
    ELSE IF dry.ok
    THEN [valid  |-> TRUE,
          reason |-> NoReason,
          checks |-> <<"parse", "deny-list", "explain">>,
          engine |-> <<explained>>,
          ran    |-> dry.ran,
          tables |-> dry.tables]
    ELSE [valid  |-> FALSE,
          reason |-> [prefix |-> "SQL syntax error: ", detail |-> dry.err],
          checks |-> <<"parse", "deny-list", "explain">>,
          engine |-> <<explained>>,
          ran    |-> dry.ran,
          tables |-> dry.tables]

\* Variant of validate_sql: the dry run stands before the scan.
PlanFirstChecks(tbls, parsed, k, explained, dry) ==
    IF parsed = ParseRaised
    THEN [valid  |-> FALSE,
          reason |-> [prefix |-> "Validation error: ", detail |-> Unparseable],
          checks |-> <<"parse">>,
          engine |-> <<>>,
          ran    |-> <<>>,
          tables |-> tbls]
    ELSE IF parsed = <<>>
    THEN [valid  |-> FALSE,
          reason |-> [prefix |-> "Empty SQL query", detail |-> ""],
          checks |-> <<"parse">>,
          engine |-> <<>>,
          ran    |-> <<>>,
          tables |-> tbls]
    ELSE IF ~dry.ok
    THEN [valid  |-> FALSE,
          reason |-> [prefix |-> "SQL syntax error: ", detail |-> dry.err],
          checks |-> <<"parse", "explain">>,
          engine |-> <<explained>>,
          ran    |-> dry.ran,
          tables |-> dry.tables]
    ELSE IF k # 0
    THEN [valid  |-> FALSE,
          reason |-> [prefix |-> "Dangerous operation detected: ",
                      detail |-> dangerous_keywords[k]],
          checks |-> <<"parse", "explain", "deny-list">>,
          engine |-> <<explained>>,
          ran    |-> dry.ran,
          tables |-> dry.tables]
    ELSE [valid  |-> TRUE,
          reason |-> NoReason,
          checks |-> <<"parse", "explain", "deny-list">>,
          engine |-> <<explained>>,
          ran    |-> dry.ran,
          tables |-> dry.tables]

validate_sql_plan_first(sql_query, isOpen, tbls) ==
    PlanFirstChecks(tbls,
                    sqlparse_parse(sql_query),
                    DenyListScan(upper(sql_query)),
                    "EXPLAIN " \o sql_query,
                    EngineExecute("EXPLAIN " \o sql_query, isOpen, tbls))

validate_sql(sql_query, isOpen, tbls) ==
    ValidateChecks(tbls,
                   sqlparse_parse(sql_query),
                   DenyListScan(upper(sql_query)),
                   "EXPLAIN " \o sql_query,
                   EngineExecute("EXPLAIN " \o sql_query, isOpen, tbls))

(***************************************************************************)
(* The query executor.  df is the number of rows of the result, -1 for     *)
(* None.                                                                   *)
(***************************************************************************)
\* Lines 248-257, on verdict v and on what the engine gave for the text.
ExecuteResult(sql_query, v, r) ==
    IF r.ok
    THEN [success |-> TRUE, df |-> r.rows, error_msg |-> NoReason,
          verdict |-> v.valid, checks |-> v.checks,
          engine |-> Append(v.engine, sql_query),
          ran |-> v.ran \o r.ran, tables |-> r.tables]
    ELSE [success |-> FALSE, df |-> -1,
          error_msg |-> [prefix |-> "SQL execution failed: ", detail |-> r.err],
          verdict |-> v.valid, checks |-> v.checks,
          engine |-> Append(v.engine, sql_query),
          ran |-> v.ran \o r.ran, tables |-> r.tables]

\* Variant of execute_sql: the verdict of line 243 is not read.
execute_sql_unvalidated(sql_query, isOpen, v, tbls) ==
    ExecuteResult(sql_query, v, EngineExecute(sql_query, isOpen, tbls))

\* The verdict the dashboard stored for its generated text.
StoredVerdict(tbls) ==
    [valid |-> TRUE, reason |-> NoReason, checks |-> <<>>, engine |-> <<>>,
     ran |-> <<>>, tables |-> tbls]

\* Variant of execute_sql: a text the dashboard stored as valid is run on
\* that stored verdict.
execute_sql_trusting(sql_query, isOpen, v, tbls) ==
    IF sql_query = generated_sql /\ generated_sql_valid
    THEN ExecuteResult(sql_query, StoredVerdict(tbls),
                       EngineExecute(sql_query, isOpen, tbls))
    ELSE IF ~v.valid
    THEN [success |-> FALSE, df |-> -1, error_msg |-> v.reason,
          verdict |-> v.valid, checks |-> v.checks,
          engine |-> v.engine, ran |-> v.ran, tables |-> tbls]
    ELSE ExecuteResult(sql_query, v, EngineExecute(sql_query, isOpen, tbls))

\* Lines 244-257, on what validate_sql gave at line 243, v, and on the
\* store as it is when line 248 is reached, tbls.
execute_sql(sql_query, isOpen, v, tbls) ==
    IF ~v.valid
    THEN [success |-> FALSE, df |-> -1, error_msg |-> v.reason,
          verdict |-> v.valid, checks |-> v.checks,
          engine |-> v.engine, ran |-> v.ran, tables |-> tbls]
    ELSE ExecuteResult(sql_query, v, EngineExecute(sql_query, isOpen, tbls))

(***************************************************************************)
(* The schema catalog and the table loader.                                *)
(***************************************************************************)
\* Variant of TableInfo: a failure of the engine gives no count.
TableInfoUncounted(count, desc) ==
    IF count.ok /\ desc.ok
    THEN [row_count |-> count.value[1], columns |-> desc.value]
    ELSE [row_count |-> -1, columns |-> <<>>]

\* Variant of TableInfo: the row count is taken from the description.
TableInfoOfDescription(count, desc) ==
    IF count.ok /\ desc.ok
    THEN [row_count |-> Len(desc.value), columns |-> desc.value]
    ELSE [row_count |-> 0, columns |-> <<>>]

\* Lines 111-123, on what the engine gave for the two statements.
TableInfo(count, desc) ==
    IF count.ok /\ desc.ok
    THEN [row_count |-> count.value[1], columns |-> desc.value]
    ELSE [row_count |-> 0, columns |-> <<>>]

\* Line 110
CountOf(table_name, isOpen, tbls) ==
    EngineExecute("SELECT COUNT(*) as count FROM " \o table_name, isOpen, tbls)

\* Line 114
Description(table_name, isOpen, tbls) ==
    EngineExecute("DESCRIBE " \o table_name, isOpen, tbls)

\* get_table_info when no other connection runs a statement between line
\* 110 and line 114.
get_table_info(table_name, isOpen, tbls) ==
    TableInfo(CountOf(table_name, isOpen, tbls), Description(table_name, isOpen, tbls))

\* Lines 133-136
TableEntry(table_name, table_info) ==
    [table_name |-> table_name,
     row_count  |-> table_info.row_count,
     columns    |-> table_info.columns]

\* Lines 131-136: one pass of the loop over the listing.
Described(entries, table_name, table_info) ==
    Append(entries, TableEntry(table_name, table_info))

\* Lines 128-130 and 138-140: the tables to describe, on what the engine
\* gave for SHOW TABLES.
ShownTables(shown) == IF shown.ok THEN shown.value ELSE <<>>

\* The entries of the tables of names, described on the store tbls.
DescribedAll(names, isOpen, tbls) ==
    LET Entries[i \in 0..Len(names)] ==
            IF i = 0 THEN <<>>
            ELSE Described(Entries[i - 1], names[i],
                           get_table_info(names[i], isOpen, tbls))
    IN  Entries[Len(names)]

\* get_all_tables when no other connection runs a statement during it.
get_all_tables(isOpen, tbls) ==
    DescribedAll(ShownTables(EngineExecute("SHOW TABLES", isOpen, tbls)), isOpen, tbls)

\* os.path.basename
LastOf(parts) == parts[Len(parts)]

basename(path) == LastOf(SplitOn(path, {"/"}))

\* The position of the last dot of a name, 0 when it has none.
LastDot(name) ==
    IF \E i \in 1..Len(name) : CharAt(name, i) = "."
    THEN CHOOSE i \in 1..Len(name) :
             /\ CharAt(name, i) = "."
             /\ \A j \in (i + 1)..Len(name) : CharAt(name, j) # "."
    ELSE 0

\* os.path.splitext(name)[0]: the name up to its last dot, unless only dots
\* stand before that dot.
RootUpTo(name, d) ==
    IF d # 0 /\ \E j \in 1..(d - 1) : CharAt(name, j) # "."
    THEN SubSeq(name, 1, d - 1)
    ELSE name

splitext_root(name) == RootUpTo(name, LastDot(name))

\* re.sub(r'[^a-zA-Z0-9_]', '_', name)
RECURSIVE re_sub(_)
re_sub(name) ==
    IF Len(name) = 0 THEN ""
    ELSE IF Len(name) = 1
    THEN (IF name \in Letters \cup Digits \cup {"_"} THEN name ELSE "_")
    ELSE re_sub(SubSeq(name, 1, Len(name) \div 2))
             \o re_sub(SubSeq(name, Len(name) \div 2 + 1, Len(name)))

\* Variant of Prefixed: only the empty name gets the prefix.
PrefixedIfEmpty(table_name) ==
    IF table_name = "" THEN "table_" ELSE table_name

\* Variant of Prefixed: every name gets the prefix.
PrefixedAlways(table_name) == "table_" \o table_name

\* Lines 77-78
Prefixed(table_name) ==
    IF table_name = "" \/ CharAt(table_name, 1) \in Digits
    THEN "table_" \o table_name
    ELSE table_name

\* The table identifier load_csv_files derives from a file name.
TableName(csv_file) == Prefixed(re_sub(splitext_root(basename(csv_file))))

\* Lines 85-90: the entry of a table that was created.
LoadInfo(acc, csv_file, table_name, table_info) ==
    [acc EXCEPT !.loaded_tables =
                    Append(@, [table_name |-> table_name,
                               file_path  |-> csv_file,
                               row_count  |-> table_info.row_count,
                               columns    |-> table_info.columns])]

\* Lines 94-97: the entry of a file whose pass raised, on what the engine
\* gave for the CREATE statement.
LoadFailed(acc, csv_file, created) ==
    [acc EXCEPT !.errors =
                    Append(@, [prefix |-> "Failed to load ",
                               file   |-> csv_file,
                               detail |-> created.err])]

\* Variant of LoadNamed: a table that exists is not replaced, the rows of
\* the file are appended to it.
LoadNamedAppending(csv_file, table_name, isOpen, tbls) ==
    EngineExecuteP(IF lower(table_name) \in DOMAIN tbls
                   THEN "COPY " \o table_name \o " FROM '" \o csv_file \o "'"
                   ELSE "CREATE OR REPLACE TABLE " \o table_name
                            \o " AS SELECT * FROM read_csv_auto(?)",
                   <<csv_file>>, isOpen, tbls)

\* Line 81, for the table identifier derived in lines 74-78.
LoadNamed(csv_file, table_name, isOpen, tbls) ==
    EngineExecuteP("CREATE OR REPLACE TABLE " \o table_name
                       \o " AS SELECT * FROM read_csv_auto(?)",
                   <<csv_file>>, isOpen, tbls)

\* Variant of LoadOne: a file that follows a file that failed is not
\* loaded.
LoadOneUntilFailure(acc, csv_file, isOpen, tbls) ==
    IF acc.errors # <<>> THEN EngineError("Skipped", tbls)
    ELSE LoadNamed(csv_file, TableName(csv_file), isOpen, tbls)

\* Lines 72-81 of one pass of the loop: what the engine gives for the
\* CREATE statement of the file.
LoadOne(acc, csv_file, isOpen, tbls) ==
    LoadNamed(csv_file, TableName(csv_file), isOpen, tbls)

\* Lines 99-104
LoadReturn(done) ==
    [loaded_tables |-> done.loaded_tables,
     errors        |-> done.errors,
     success_count |-> Len(done.loaded_tables),
     error_count   |-> Len(done.errors)]

\* The lists of lines 68-69.
NoneLoaded == [loaded_tables |-> <<>>, errors |-> <<>>]

\* One pass of the loop when no other connection runs a statement during
\* it, on what the engine gave for the CREATE statement: the lists, and the
\* store the pass leaves.
LoadPassed(done, csv_file, isOpen, created) ==
    [loaded |-> IF created.ok
                THEN LoadInfo(done.loaded, csv_file, TableName(csv_file),
                              get_table_info(TableName(csv_file), isOpen, created.tables))
                ELSE LoadFailed(done.loaded, csv_file, created),
     tables |-> created.tables]

LoadPass(done, csv_file, isOpen) ==
    LoadPassed(done, csv_file, isOpen,
               LoadOne(done.loaded, csv_file, isOpen, done.tables))

\* What load_csv_files has when it returns, done.
LoadDone(done) == [result |-> LoadReturn(done.loaded), tables |-> done.tables]

\* load_csv_files when no other connection runs a statement during it:
\* what it returns, and the store it leaves.
load_csv_files(csv_files, isOpen, tbls) ==
    LET Loop[i \in 0..Len(csv_files)] ==
            IF i = 0
            THEN [loaded |-> NoneLoaded, tables |-> tbls]
            ELSE LoadPass(Loop[i - 1], csv_files[i], isOpen)
    IN  LoadDone(Loop[Len(csv_files)])

(***************************************************************************)
(* get_table_sample.  df is the number of rows of the sample, -1 for None. *)
(***************************************************************************)
\* The default of the parameter limit.
DefaultLimit == 5

\* str(limit), for the limits the model follows.
LimitText(limit) == <<"0", "1", "2", "3", "4", "5", "6", "7", "8", "9">>[limit + 1]

\* Variant of Sampled: the failure of the engine is returned as an empty
\* sample.
SampledEmptyOnError(r) ==
    [df |-> IF r.ok THEN r.rows ELSE 0, ran |-> r.ran, tables |-> r.tables]

\* Lines 262-266, on what the engine gave for the statement.
Sampled(r) ==
    [df |-> IF r.ok THEN r.rows ELSE -1, ran |-> r.ran, tables |-> r.tables]

get_table_sample(table_name, limit, isOpen, tbls) ==
    Sampled(EngineExecute("SELECT * FROM " \o table_name \o " LIMIT " \o LimitText(limit),
                          isOpen, tbls))

(***************************************************************************)
(* close(): the engine handle is released whenever self.conn is set, and   *)
(* self.conn is left as it is.                                             *)
(***************************************************************************)
\* Variant of close: the engine handle is not released.
close_without_release(c, isOpen, rel) ==
    [conn |-> c, connOpen |-> isOpen, releases |-> IF c # None THEN rel + 1 ELSE rel]

close(c, isOpen, rel) ==
    IF c # None
    THEN [conn |-> c, connOpen |-> FALSE, releases |-> rel + 1]
    ELSE [conn |-> c, connOpen |-> isOpen, releases |-> rel]

(***************************************************************************)
(* Natural language to SQL.  raw is what the text-generation collaborator  *)
(* returns, GeneratorFails when it raises.  A TLA+ string cannot hold the  *)
(* grave accent: the model writes ^ for it, so the opening fence of the    *)
(* code is "^^^sql" and the closing fence "^^^".                           *)
(***************************************************************************)
GeneratorFails == "<invoke_bedrock raises>"

FenceOpen == "^^^sql"
FenceClose == "^^^"

\* Lines 191-192
CutOpen(s) == IF startswith(s, FenceOpen) THEN SubSeq(s, 7, Len(s)) ELSE s

\* Lines 193-194
CutClose(s) == IF endswith(s, FenceClose) THEN SubSeq(s, 1, Len(s) - 3) ELSE s

\* Variant of Extract: the closing fence is removed only from a text whose
\* opening fence was removed.
ExtractFencedPair(raw) ==
    IF startswith(strip(raw), FenceOpen)
    THEN strip(CutClose(CutOpen(strip(raw))))
    ELSE strip(raw)

\* The clean-up of the generated text, lines 190-195.
Extract(raw) == strip(CutClose(CutOpen(strip(raw))))

\* Lines 163-183: the roles of the messages of the prompt, one message.
Prompt == <<"user">>

\* Variant of Generated: the handler of lines 200-202 returns an empty text
\* in place of raising again.
GeneratedSwallowing(raw, tables_info) ==
    IF tables_info = <<>>
    THEN [raised |-> TRUE, error |-> "No tables available for querying",
          sql_query |-> "", generator_calls |-> 0, messages |-> <<>>]
    ELSE IF raw = GeneratorFails
    THEN [raised |-> FALSE, error |-> "",
          sql_query |-> "", generator_calls |-> 1, messages |-> Prompt]
    ELSE [raised |-> FALSE, error |-> "",
          sql_query |-> Extract(raw), generator_calls |-> 1, messages |-> Prompt]

\* Variant of Generated: the catalog is tested after the call of
\* invoke_bedrock.
GeneratedCallingFirst(raw, tables_info) ==
    IF raw = GeneratorFails
    THEN [raised |-> TRUE, error |-> GeneratorFails,
          sql_query |-> "", generator_calls |-> 1, messages |-> Prompt]
    ELSE IF tables_info = <<>>
    THEN [raised |-> TRUE, error |-> "No tables available for querying",
          sql_query |-> "", generator_calls |-> 1, messages |-> Prompt]
    ELSE [raised |-> FALSE, error |-> "",
          sql_query |-> Extract(raw), generator_calls |-> 1, messages |-> Prompt]

\* Lines 148-202, on the catalog of line 147; generator_calls counts the calls
\* of invoke_bedrock and messages holds the roles of what it was handed.
Generated(raw, tables_info) ==
    IF tables_info = <<>>
    THEN [raised |-> TRUE, error |-> "No tables available for querying",
          sql_query |-> "", generator_calls |-> 0, messages |-> <<>>]
    ELSE IF raw = GeneratorFails
    THEN [raised |-> TRUE, error |-> GeneratorFails,
          sql_query |-> "", generator_calls |-> 1, messages |-> Prompt]
    ELSE [raised |-> FALSE, error |-> "",
          sql_query |-> Extract(raw), generator_calls |-> 1, messages |-> Prompt]

\* natural_language_to_sql when no other connection runs a statement
\* during its catalog read.
natural_language_to_sql(raw, isOpen, tbls) ==
    Generated(raw, get_all_tables(isOpen, tbls))

(***************************************************************************)
(* The connection manager.                                                 *)
(***************************************************************************)
workspace_dir == "csv_workspace"

\* os.getpid(), as text
getpid == "4242"

PrimaryPath == workspace_dir \o "/" \o "workspace.duckdb"

pid_db_path == workspace_dir \o "/" \o "workspace_" \o getpid \o ".duckdb"

\* What duckdb.connect raises in the model; OpenOk stands for an open that
\* succeeds.
OpenOk == ""

OpenErrors ==
    {"IO Error: Could not set lock on file",
     "IO Error: Conflicting lock is held by PID 7",
     "IO Error: The file is not a valid DuckDB database file",
     "IO Error: Permission denied"}

\* The test of line 36 on str(e).
IsLockError(error_msg) ==
    \/ Contains("lock on file", lower(error_msg))
    \/ Contains("conflicting lock", lower(error_msg))

\* Variant of LastAttempt: range(1, 5).
LastAttemptFour == 5 - 1

\* range(1, 6): the last attempt of the retry loop.
LastAttempt == 5

(***************************************************************************)
(* The record of the last call, and the call in progress.  alone tells     *)
(* that no other connection ran a statement during the call, nor since it  *)
(* returned.                                                               *)
(***************************************************************************)
Call(op, origin, arg, ok, reason, verdict, checks, engine, ran, df, result) ==
    [op |-> op, origin |-> origin, arg |-> arg, ok |-> ok, reason |-> reason,
     verdict |-> verdict, checks |-> checks, engine |-> engine, ran |-> ran,
     df |-> df, result |-> result, alone |-> TRUE]

NoCall == Call("none", "", "", TRUE, NoReason, "none", <<>>, <<>>, <<>>, -1, <<>>)

\* A call that was entered and did not return yet.
Began(origin, arg) ==
    Call("began", origin, arg, TRUE, NoReason, "none", <<>>, <<>>, <<>>, -1, <<>>)

Connect(origin, path, outcome) ==
    Call("duckdb.connect", origin, path, outcome = OpenOk,
         [prefix |-> "", detail |-> outcome], "none", <<>>, <<>>, <<>>, -1, <<>>)

Verdict(valid) == IF valid THEN "valid" ELSE "invalid"

RowsWithin(tbls) == \A t \in DOMAIN tbls : tbls[t].row_count <= MaxRows

\* What a call holds before line 110 gave a count.
NoCount == [ok |-> FALSE, value |-> <<>>]

\* What a call holds before line 243 gave a verdict.
NoVerdict ==
    [valid |-> FALSE, reason |-> NoReason, checks |-> <<>>, engine |-> <<>>,
     ran |-> <<>>, tables |-> <<>>]

\* No call is in progress.  Of a call in progress: at is the call of the
\* engine it makes next ("create", "count", "describe", "execute"),
\* "generate" for the call of the text-generation collaborator, or the line
\* the dashboard's run is at once natural_language_to_sql returned
\* ("store", "validate", "flag", "button"); i is the
\* position of the file, or of the listed table, it works on; listed is
\* what SHOW TABLES gave; count is what line 110 gave; loaded and entries
\* are the lists built so far; v is the verdict of line 243.
NoFrame ==
    [op |-> "none", origin |-> "", arg |-> "", at |-> "", i |-> 0,
     listed |-> <<>>, count |-> NoCount, loaded |-> NoneLoaded,
     entries |-> <<>>, v |-> NoVerdict, alone |-> TRUE]

Idle == frame = NoFrame

\* The call returns c.
Returned(c) ==
    /\ frame' = NoFrame
    /\ last' = [c EXCEPT !.alone = frame.alone]

(***************************************************************************)
(* The constructor: _connect_db, one action per call of duckdb.connect.    *)
(***************************************************************************)
\* Lines 29-36: the first open of the primary store.
FirstOpen ==
    /\ pc = "start"
    /\ \E outcome \in {OpenOk} \cup OpenErrors :
        /\ opens' = Append(opens, [path |-> db_path, outcome |-> outcome])
        /\ IF outcome = OpenOk
           THEN /\ conn' = db_path
                /\ connOpen' = TRUE
                /\ pc' = "ready"
                /\ attempt' = attempt
           ELSE /\ UNCHANGED <<conn, connOpen>>
                /\ IF IsLockError(outcome)
                   THEN pc' = "retrying" /\ attempt' = 1
                   ELSE pc' = "fallback" /\ attempt' = attempt
        /\ last' = Connect("first", db_path, outcome)
    /\ UNCHANGED <<db_path, sleepUnits, releases, raised, tables, loadedTables,
                   sessionVars, frame>>

\* Variant of Backoff: every wait is one unit.
BackoffConstant(n) == 1

\* time.sleep(0.5 * attempt), in units of 0.5 s.
Backoff(n) == n

\* Variant: a successful retry leaves the loop with break instead of return.
AfterRetryBreaking(outcome, n) ==
    IF outcome = OpenOk \/ n = LastAttempt THEN "fallback" ELSE "retrying"

\* Lines 39-46: where the constructor stands after retry n: returned (line
\* 42), out of the loop after the last retry (line 46), or in the next pass.
AfterRetry(outcome, n) ==
    IF outcome = OpenOk THEN "ready"
    ELSE IF n = LastAttempt THEN "fallback" ELSE "retrying"

\* Lines 37-46: one pass of the retry loop.
RetryOpen ==
    /\ pc = "retrying"
    /\ \E outcome \in {OpenOk} \cup OpenErrors :
        /\ sleepUnits' = sleepUnits + Backoff(attempt)
        /\ opens' = Append(opens, [path |-> db_path, outcome |-> outcome])
        /\ IF outcome = OpenOk
           THEN /\ conn' = db_path
                /\ connOpen' = TRUE
           ELSE UNCHANGED <<conn, connOpen>>
        /\ pc' = AfterRetry(outcome, attempt)
        /\ attempt' = IF AfterRetry(outcome, attempt) = "retrying"
                      THEN attempt + 1 ELSE attempt
        /\ last' = Connect("retry", db_path, outcome)
    /\ UNCHANGED <<db_path, releases, raised, tables, loadedTables,
                   sessionVars, frame>>

\* Variant: raise e, the first open's error, instead of the bare raise.
RaisedFirst(first_err, final_err) == first_err

\* Line 55: the bare raise inside "except Exception as final_err" re-raises
\* the fallback's error.
Raised(first_err, final_err) == final_err

\* Variant: self.db_path assigned before duckdb.connect is called.
PathAssignedFirst(outcome) == pid_db_path

\* Lines 50-51: self.db_path is assigned after the connect returned.
PathAfterFallback(outcome) == IF outcome = OpenOk THEN pid_db_path ELSE db_path

\* Lines 48-55: the open of the per-process store.
FallbackOpen ==
    /\ pc = "fallback"
    /\ \E outcome \in {OpenOk} \cup OpenErrors :
        /\ opens' = Append(opens, [path |-> pid_db_path, outcome |-> outcome])
        /\ db_path' = PathAfterFallback(outcome)
        /\ IF outcome = OpenOk
           THEN /\ conn' = pid_db_path
                /\ connOpen' = TRUE
                /\ pc' = "ready"
                /\ raised' = FALSE
                /\ last' = Connect("fallback", pid_db_path, outcome)
           ELSE /\ UNCHANGED <<conn, connOpen>>
                /\ pc' = "failed"
                /\ raised' = TRUE
                /\ last' = [Connect("fallback", pid_db_path, outcome) EXCEPT !.result = <<Raised(opens[1].outcome, outcome)>>]
    /\ UNCHANGED <<attempt, sleepUnits, releases, tables, loadedTables,
                   sessionVars, frame>>

\* What close() leaves, c.
Closed(c) ==
    /\ conn' = c.conn
    /\ connOpen' = c.connOpen
    /\ releases' = c.releases

\* close(), also as __del__ calls it on a handler whose constructor raised.
Close ==
    /\ pc \in {"ready", "failed"}
    /\ Idle
    /\ releases < MaxCloses
    /\ Closed(close(conn, connOpen, releases))
    /\ last' = Call("close", "", "", TRUE, NoReason, "none",
                    <<>>, <<>>, <<>>, -1, <<>>)
    /\ UNCHANGED <<pc, attempt, db_path, opens, sleepUnits, raised,
                   tables, loadedTables, sessionVars, frame>>

(***************************************************************************)
(* Inputs.                                                                 *)
(***************************************************************************)
\* The lists of files handed to load_csv_files.
FileLists ==
    {<<>>, <<"data/sales.csv">>, <<"new/sales.csv">>, <<"data/gone.csv">>}

\* The SQL texts handed to validate_sql and execute_sql.
SqlTexts ==
    {"select amount from sales",
     "SELECT name FROM sales;",
     "copy sales from 'data/sales.csv'",
     "select id from sales; copy sales from 'data/sales.csv'",
     "delete from sales",
     "select created_at from sales",
     "selec amount from sales",
     " \n",
     ""}

\* What the text-generation collaborator returns.
RawTexts ==
    {"^^^sql\nselect amount from sales\n^^^",
     " SELECT name FROM sales; ",
     "DELETE FROM sales;",
     ""}

(***************************************************************************)
(* The operations of a constructed handler.                                *)
(***************************************************************************)
\* What load_csv_files returns for the lists loaded.
LoadReturned(csv_files, loaded) ==
    Returned(Call("load_csv_files", "", csv_files, TRUE, NoReason, "none",
                  <<>>, <<>>, <<>>, -1, LoadReturn(loaded)))

\* Lines 65-71: load_csv_files is entered, and returns at once on an empty
\* list.
LoadBegun(csv_files) ==
    /\ pc = "ready"
    /\ Idle
    /\ IF csv_files = <<>>
       THEN LoadReturned(csv_files, NoneLoaded)
       ELSE /\ frame' = [NoFrame EXCEPT !.op = "load_csv_files", !.arg = csv_files,
                                        !.at = "create", !.i = 1]
            /\ last' = Began("", csv_files)
    /\ UNCHANGED <<connVars, sessionVars, tables, loadedTables>>

LoadCsvFiles == \E csv_files \in FileLists : LoadBegun(csv_files)

\* The pass of a file gave loaded: the next pass, or the return of lines
\* 99-104.
LoadGoesOn(loaded) ==
    IF frame.i < Len(frame.arg)
    THEN /\ frame' = [frame EXCEPT !.loaded = loaded, !.i = @ + 1,
                                   !.at = "create", !.count = NoCount]
         /\ UNCHANGED last
    ELSE LoadReturned(frame.arg, loaded)

\* What the engine gave for the CREATE statement of line 81, created.
LoadCreated(created) ==
    /\ tables' = created.tables
    /\ loadedTables' = created.tables
    /\ IF created.ok
       THEN /\ frame' = [frame EXCEPT !.at = "count"]
            /\ UNCHANGED last
       ELSE LoadGoesOn(LoadFailed(frame.loaded, frame.arg[frame.i], created))

\* Lines 72-81 of the pass of the file at position frame.i.
LoadCreate ==
    /\ frame.op = "load_csv_files"
    /\ frame.at = "create"
    /\ LoadCreated(LoadOne(frame.loaded, frame.arg[frame.i], connOpen, tables))
    /\ UNCHANGED <<connVars, sessionVars>>

\* The table get_table_info was called on: the table of the file of the
\* pass (line 84), the listed table (line 132), or the argument of a call
\* of get_table_info.
FrameTable ==
    IF frame.op = "load_csv_files"
    THEN TableName(frame.arg[frame.i])
    ELSE IF frame.op = "get_table_info"
    THEN frame.arg
    ELSE frame.listed[frame.i]

\* What get_all_tables returns.
AllTablesReturned(listed, entries) ==
    Returned(Call("get_all_tables", "", "", TRUE, NoReason, "none",
                  <<>>, <<>>, <<>>, -1,
                  [listed |-> listed, entries |-> entries]))

\* The pass of a listed table gave entries: the next pass, the return of
\* get_all_tables (line 137), or line 148 of natural_language_to_sql.
CatalogGoesOn(entries) ==
    IF frame.i < Len(frame.listed)
    THEN /\ frame' = [frame EXCEPT !.entries = entries, !.i = @ + 1,
                                   !.at = "count", !.count = NoCount]
         /\ UNCHANGED last
    ELSE IF frame.op = "get_all_tables"
    THEN AllTablesReturned(frame.listed, entries)
    ELSE /\ frame' = [frame EXCEPT !.entries = entries, !.at = "generate",
                                   !.count = NoCount]
         /\ UNCHANGED last

\* get_table_info returned table_info to the call in progress.
InfoReturned(table_info) ==
    IF frame.op = "load_csv_files"
    THEN LoadGoesOn(LoadInfo(frame.loaded, frame.arg[frame.i], FrameTable, table_info))
    ELSE IF frame.op = "get_table_info"
    THEN Returned(Call("get_table_info", "", frame.arg, TRUE, NoReason, "none",
                       <<>>, <<>>, <<>>, -1, table_info))
    ELSE CatalogGoesOn(Described(frame.entries, FrameTable, table_info))

\* What the engine gave for the statement of line 110, count.
Counted(count) ==
    IF count.ok
    THEN /\ frame' = [frame EXCEPT !.count = [ok |-> TRUE, value |-> count.value],
                                   !.at = "describe"]
         /\ UNCHANGED last
    ELSE InfoReturned(TableInfo(count, count))

\* Lines 110-111 of get_table_info.
CountRows ==
    /\ frame.at = "count"
    /\ Counted(CountOf(FrameTable, connOpen, tables))
    /\ UNCHANGED <<connVars, sessionVars, tables, loadedTables>>

\* Lines 114-123 of get_table_info.
DescribeTable ==
    /\ frame.at = "describe"
    /\ InfoReturned(TableInfo(frame.count, Description(FrameTable, connOpen, tables)))
    /\ UNCHANGED <<connVars, sessionVars, tables, loadedTables>>

\* Lines 128-130: the catalog read of a call of op is entered and listed
\* the tables of names.
Listed(op, origin, names) ==
    /\ pc = "ready"
    /\ Idle
    /\ IF op = "get_all_tables" /\ names = <<>>
       THEN AllTablesReturned(<<>>, <<>>)
       ELSE /\ frame' = [NoFrame EXCEPT
                             !.op = op, !.origin = origin, !.listed = names,
                             !.i = IF names = <<>> THEN 0 ELSE 1,
                             !.at = IF names = <<>> THEN "generate" ELSE "count"]
            /\ last' = Began(origin, "")
    /\ UNCHANGED <<connVars, sessionVars, tables, loadedTables>>

\* A call of get_table_info on a table name: line 108.
InfoBegun(table_name) ==
    /\ pc = "ready"
    /\ Idle
    /\ frame' = [NoFrame EXCEPT !.op = "get_table_info", !.arg = table_name,
                                !.at = "count"]
    /\ last' = Began("", table_name)
    /\ UNCHANGED <<connVars, sessionVars, tables, loadedTables>>

\* A call of get_all_tables.
GetAllTables ==
    Listed("get_all_tables", "",
           ShownTables(EngineExecute("SHOW TABLES", connOpen, tables)))

\* A call of natural_language_to_sql: the catalog read of line 147.
NaturalLanguageToSql ==
    Listed("natural_language_to_sql", "call",
           ShownTables(EngineExecute("SHOW TABLES", connOpen, tables)))

\* The dashboard's "Generate SQL" (lines 320-325), up to the catalog read
\* of natural_language_to_sql.
GenerateSql ==
    Listed("natural_language_to_sql", "generated",
           ShownTables(EngineExecute("SHOW TABLES", connOpen, tables)))

\* What a call of natural_language_to_sql gave, g: the text it returned, or
\* the exception it raised.
NaturalLanguageReturned(raw, g) ==
    /\ Returned(Call("natural_language_to_sql", "call", raw, ~g.raised,
                     [prefix |-> IF g.raised THEN "raised: " ELSE None,
                      detail |-> g.error],
                     "none", <<>>, <<>>, <<>>, -1,
                     [raised          |-> g.raised,
                      sql_query       |-> g.sql_query,
                      generator_calls |-> g.generator_calls,
                      messages        |-> g.messages]))
    /\ UNCHANGED <<tables, generated_sql, generated_sql_valid>>

\* The record of a call of validate_sql that returned v.
Validated(origin, sql_query, v) ==
    Call("validate_sql", origin, sql_query, v.valid, v.reason,
         Verdict(v.valid), v.checks, v.engine, v.ran, -1, <<>>)

\* What validate_sql returned, v.
ValidateReturned(origin, sql_query, v) ==
    /\ RowsWithin(v.tables)
    /\ tables' = v.tables
    /\ Returned(Validated(origin, sql_query, v))

\* Line 326 of the dashboard, on what natural_language_to_sql gave, g: the
\* text it returned is held by sql_query and shown (lines 328-329), or the
\* exception it raised ends the run (lines 359-361).
GenerateReturned(raw, g) ==
    /\ IF g.raised
       THEN Returned(Call("natural_language_to_sql", "generated", raw, FALSE,
                          [prefix |-> "Generation failed: ", detail |-> g.error],
                          "none", <<>>, <<>>, <<>>, -1, <<>>))
       ELSE /\ frame' = [frame EXCEPT !.arg = g.sql_query, !.at = "store"]
            /\ UNCHANGED last
    /\ UNCHANGED <<tables, generated_sql, generated_sql_valid>>

\* Lines 148-202 of natural_language_to_sql, the text-generation
\* collaborator answering raw, and the return to the caller: a plain call
\* ends, the dashboard's run goes on with the text.
GenerateText(raw) ==
    /\ frame.at = "generate"
    /\ IF frame.origin = "call"
       THEN NaturalLanguageReturned(raw, Generated(raw, frame.entries))
       ELSE GenerateReturned(raw, Generated(raw, frame.entries))
    /\ UNCHANGED <<connVars, loadedTables, candidate, file_paths>>

\* Line 331: the text is stored in the session.
StoreGeneratedSql ==
    /\ frame.at = "store"
    /\ generated_sql' = frame.arg
    /\ frame' = [frame EXCEPT !.at = "validate"]
    /\ UNCHANGED <<connVars, tables, loadedTables, generated_sql_valid,
                   candidate, file_paths, last>>

\* What validate_sql returned to line 334, v.
GeneratedValidated(v) ==
    /\ RowsWithin(v.tables)
    /\ tables' = v.tables
    /\ frame' = [frame EXCEPT !.v = v, !.at = "flag"]

\* Line 334: the text is validated.
ValidateGenerated ==
    /\ frame.at = "validate"
    /\ GeneratedValidated(validate_sql(frame.arg, connOpen, tables))
    /\ UNCHANGED <<connVars, sessionVars, loadedTables, last>>

\* Lines 335-338, up to the button, for a text found valid; lines 352-357,
\* to the end of the run, for a text found invalid.
FlagGenerated ==
    /\ frame.at = "flag"
    /\ generated_sql_valid' = frame.v.valid
    /\ IF frame.v.valid
       THEN /\ frame' = [frame EXCEPT !.at = "button"]
            /\ UNCHANGED last
       ELSE Returned(Validated("generated", frame.arg, frame.v))
    /\ UNCHANGED <<connVars, tables, loadedTables, generated_sql, candidate,
                   file_paths>>

\* Lines 341-357: the button "Execute SQL" is drawn, false in this run, and
\* the run ends.
DrawExecuteSql ==
    /\ frame.at = "button"
    /\ Returned(Validated("generated", frame.arg, frame.v))
    /\ UNCHANGED <<connVars, sessionVars, tables, loadedTables>>

\* The run is stopped inside a call of st.* (lines 328-329, 336 and 353,
\* 341), as Streamlit stops a script run when the next one is asked for:
\* what the run assigned so far stays in the session.
RunStopped ==
    /\ frame.origin = "generated"
    /\ frame.at \in {"store", "flag", "button"}
    /\ Returned(Call("script_run", "stopped", frame.arg, TRUE, NoReason, "none",
                     <<>>, <<>>, <<>>, -1, <<>>))
    /\ UNCHANGED <<connVars, sessionVars, tables, loadedTables>>

\* A call of validate_sql.
ValidateSql(sql_query) ==
    /\ pc = "ready"
    /\ Idle
    /\ ValidateReturned("call", sql_query, validate_sql(sql_query, connOpen, tables))
    /\ UNCHANGED <<connVars, sessionVars, loadedTables>>

\* Line 243 of execute_sql gave the verdict v.
ExecuteValidated(origin, sql_query, v) ==
    /\ RowsWithin(v.tables)
    /\ tables' = v.tables
    /\ frame' = [NoFrame EXCEPT !.op = "execute_sql", !.origin = origin,
                                !.arg = sql_query, !.at = "execute", !.v = v]
    /\ last' = Began(origin, sql_query)

\* execute_sql is entered and validates the text.
ExecuteSqlFrom(origin, sql_query) ==
    /\ pc = "ready"
    /\ Idle
    /\ ExecuteValidated(origin, sql_query, validate_sql(sql_query, connOpen, tables))
    /\ UNCHANGED <<connVars, sessionVars, loadedTables>>

\* A call of execute_sql.
ExecuteSql(sql_query) == ExecuteSqlFrom("call", sql_query)

\* The dashboard's "Execute Manual SQL" (lines 371-377).
ManualSqlExecution(manual_sql) ==
    /\ strip(manual_sql) # ""
    /\ ExecuteSqlFrom("manual", manual_sql)

\* What execute_sql returned, r.
ExecuteReturned(r) ==
    /\ RowsWithin(r.tables)
    /\ tables' = r.tables
    /\ Returned(Call("execute_sql", frame.origin, frame.arg, r.success, r.error_msg,
                     Verdict(r.verdict), r.checks, r.engine, r.ran, r.df, <<>>))

\* Lines 244-257 of execute_sql.
ExecuteText ==
    /\ frame.at = "execute"
    /\ ExecuteReturned(execute_sql(frame.arg, connOpen, frame.v, tables))
    /\ UNCHANGED <<connVars, sessionVars, loadedTables>>

(***************************************************************************)
(* The other connections of the process.  Every dashboard session holds a  *)
(* handler of its own, open on the same store, and the sessions run in     *)
(* threads of one process: between two calls of the engine by this handler *)
(* the handlers of the other sessions run the statements of their own      *)
(* calls.  A statement that writes to the store is the CREATE OR REPLACE   *)
(* of load_csv_files, or a statement of a text validate_sql accepts; no    *)
(* text that holds DROP passes the deny-list, so no session removes a      *)
(* table.  The model follows the load of a file of the identifier sales    *)
(* with other columns, the load of a file of another identifier, and       *)
(* execute_sql of a COPY into table sales.                                 *)
(***************************************************************************)
OtherLoads == {"new/sales.csv", "up/2024 q1.csv"}

OtherTexts == {"copy sales from 'data/sales.csv'"}

\* The text of line 81 for a file.
CreateOf(csv_file) ==
    "CREATE OR REPLACE TABLE " \o TableName(csv_file)
        \o " AS SELECT * FROM read_csv_auto(?)"

\* A statement as the engine takes it: its text, its parameters, and what
\* the engine parses the text to.
Statement(text, params) ==
    [text |-> text, params |-> params, parsed |-> ParseStatement(text)]

\* The statements of the other handlers that write: line 81 of
\* load_csv_files for a file, line 248 of execute_sql for a text.
OtherWrites ==
    {Statement(CreateOf(f), <<f>>) : f \in OtherLoads}
    \cup {Statement(t, <<>>) : t \in OtherTexts}

\* The store after another connection ran other on tbls.
After(other, tbls) ==
    EngineStep(EngineStart(tbls), other.parsed, other.text, other.params).tables

\* The statement of another connection left after[s] of the store s.
OtherWrote(after) ==
    /\ RowsWithin(after[tables])
    /\ RowsWithin(after[loadedTables])
    /\ tables' = after[tables]
    /\ loadedTables' = after[loadedTables]

\* Another connection of the process runs a statement of its own.
OtherConnection ==
    /\ pc = "ready"
    /\ \E other \in OtherWrites :
           OtherWrote([s \in {tables, loadedTables} |-> After(other, s)])
    /\ frame' = IF Idle THEN frame ELSE [frame EXCEPT !.alone = FALSE]
    /\ last' = [last EXCEPT !.alone = FALSE]
    /\ UNCHANGED <<connVars, sessionVars>>

(***************************************************************************)
(* Specifications.                                                         *)
(***************************************************************************)
\* Before _connect_db (lines 16-19), on an empty store.
InitConnect ==
    /\ pc = "start"
    /\ attempt = 0
    /\ conn = None
    /\ connOpen = FALSE
    /\ db_path = PrimaryPath
    /\ opens = <<>>
    /\ sleepUnits = 0
    /\ releases = 0
    /\ raised = FALSE
    /\ tables = <<>>
    /\ loadedTables = <<>>
    /\ generated_sql = None
    /\ generated_sql_valid = FALSE
    /\ candidate = ""
    /\ file_paths = <<>>
    /\ frame = NoFrame
    /\ last = NoCall

\* A handler whose constructor opened the primary store at once, in a
\* dashboard session that generated nothing yet.
Constructed ==
    /\ pc = "ready"
    /\ attempt = 0
    /\ conn = PrimaryPath
    /\ connOpen = TRUE
    /\ db_path = PrimaryPath
    /\ opens = <<[path |-> PrimaryPath, outcome |-> OpenOk]>>
    /\ sleepUnits = 0
    /\ releases = 0
    /\ raised = FALSE
    /\ generated_sql = None
    /\ generated_sql_valid = FALSE
    /\ frame = NoFrame
    /\ last = NoCall

Init ==
    /\ Constructed
    /\ tables = <<>>
    /\ loadedTables = <<>>
    /\ candidate = ""
    /\ file_paths = <<>>

Next ==
    \/ LoadCsvFiles
    \/ LoadCreate
    \/ CountRows
    \/ DescribeTable
    \/ \E s \in SqlTexts : ValidateSql(s)
    \/ \E s \in SqlTexts : ExecuteSql(s)
    \/ \E s \in SqlTexts : ManualSqlExecution(s)
    \/ ExecuteText
    \/ GenerateSql
    \/ \E raw \in RawTexts \cup {GeneratorFails} : GenerateText(raw)
    \/ StoreGeneratedSql
    \/ ValidateGenerated
    \/ FlagGenerated
    \/ DrawExecuteSql
    \/ RunStopped
    \/ Close
    \/ OtherConnection

Spec == Init /\ [][Next]_vars

\* The constructor, from its first open to the handler's disposal.
NextConnect ==
    \/ FirstOpen
    \/ RetryOpen
    \/ FallbackOpen
    \/ Close

SpecConnect == InitConnect /\ [][NextConnect]_vars

\* The constructor runs on: every call of duckdb.connect and every sleep
\* returns.
SpecConnectFair ==
    InitConnect /\ [][NextConnect]_vars
        /\ WF_vars(FirstOpen \/ RetryOpen \/ FallbackOpen)

(***************************************************************************)
(* The validator and the executor on candidate texts: a keyword of the     *)
(* deny-list in three casings, inside an identifier, inside a string       *)
(* literal, next to another keyword, and texts without a keyword, each     *)
(* with up to MaxPad whitespace characters before and after it.            *)
(***************************************************************************)
PadChars == {" ", "\n"}

RECURSIVE Pads(_)
Pads(n) ==
    IF n = 0 THEN {""}
    ELSE Pads(n - 1) \cup {p \o c : p \in Pads(n - 1), c \in PadChars}

Capitalized(k) == SubSeq(k, 1, 1) \o lower(SubSeq(k, 2, Len(k)))

\* The twelve keywords the validator is documented to reject.
DenyListed ==
    <<"DROP", "DELETE", "INSERT", "UPDATE", "ALTER", "CREATE", "TRUNCATE",
      "EXEC", "EXECUTE", "CALL", "GRANT", "REVOKE">>

KeywordIndex == 1..Len(DenyListed)

Following(i) == (i % Len(DenyListed)) + 1

CandidateBodies ==
    {DenyListed[i] : i \in KeywordIndex}
    \cup {lower(DenyListed[i]) : i \in KeywordIndex}
    \cup {Capitalized(DenyListed[i]) \o " x" : i \in KeywordIndex}
    \cup {"select " \o lower(DenyListed[i]) \o "d_at from sales" : i \in KeywordIndex}
    \cup {"select '" \o Capitalized(DenyListed[i]) \o "' from sales" : i \in KeywordIndex}
    \cup {DenyListed[i] \o " " \o DenyListed[Following(i)] : i \in KeywordIndex}
    \cup {DenyListed[Following(i)] \o " " \o DenyListed[i] : i \in KeywordIndex}
    \cup {"", ";", "selec", "select id from sales", "select nope from sales",
          "SELECT * FROM Sales;", "copy sales from 'data/sales.csv'",
          "select id from sales; copy sales from 'data/sales.csv'",
          "select id from sales; copy sales from 'data/sales.csv'; select nope from sales",
          Unparseable}

Candidates ==
    {a \o b \o c : a \in Pads(MaxPad), b \in CandidateBodies, c \in Pads(MaxPad)}

\* The store after load_csv_files(["data/sales.csv"]) on an empty store.
SalesLoaded == load_csv_files(<<"data/sales.csv">>, TRUE, <<>>).tables

InitValidate ==
    /\ Constructed
    /\ tables = SalesLoaded
    /\ loadedTables = SalesLoaded
    /\ candidate \in Candidates
    /\ file_paths = <<>>

ValidateCandidate == ValidateSql(candidate)

ExecuteCandidate == ExecuteSql(candidate)

NextValidate ==
    \/ ValidateCandidate
    \/ ExecuteCandidate
    \/ ExecuteText
    \/ OtherConnection

SpecValidate == InitValidate /\ [][NextValidate]_vars

(***************************************************************************)
(* The scan of the deny-list on texts that hold two keywords, in both      *)
(* orders, one keyword in lower case, a keyword spelled with a character   *)
(* that upper() turns into the keyword's last letter and a mark (U+1E97    *)
(* gives T and U+0308), and no keyword.                                    *)
(***************************************************************************)
ScanTexts ==
    {DenyListed[i] \o " " \o DenyListed[Following(i)] : i \in KeywordIndex}
    \cup {DenyListed[Following(i)] \o " " \o DenyListed[i] : i \in KeywordIndex}
    \cup {"select " \o lower(DenyListed[i]) \o " from sales" : i \in KeywordIndex}
    \cup {"select 1 as granẗ", "select inserẗ from sales",
          "select granẗ, inserẗ from sales",
          "select 1 as granẗx",
          "select id from sales", "select nope from sales"}

InitScan ==
    /\ Constructed
    /\ tables = SalesLoaded
    /\ loadedTables = SalesLoaded
    /\ candidate \in ScanTexts
    /\ file_paths = <<>>

SpecScan == InitScan /\ [][NextValidate]_vars

(***************************************************************************)
(* The reason validate_sql gives for a text that holds a keyword: every    *)
(* keyword of the list in three casings, inside an identifier, inside a    *)
(* string literal and next to another keyword, between whitespace; texts   *)
(* that hold a keyword only once upper() is applied (U+1E97 gives T and    *)
(* U+0308), one of them beside a keyword that stands later in the list;    *)
(* and texts that hold a keyword and on which the parser raises.           *)
(***************************************************************************)
KeywordPads == {"", " ", " \n"}

KeywordBodies ==
    {DenyListed[i] : i \in KeywordIndex}
    \cup {lower(DenyListed[i]) : i \in KeywordIndex}
    \cup {Capitalized(DenyListed[i]) \o " x" : i \in KeywordIndex}
    \cup {"select " \o lower(DenyListed[i]) \o "d_at from sales" : i \in KeywordIndex}
    \cup {"select '" \o Capitalized(DenyListed[i]) \o "' from sales" : i \in KeywordIndex}
    \cup {DenyListed[i] \o " " \o DenyListed[Following(i)] : i \in KeywordIndex}
    \cup {DenyListed[Following(i)] \o " " \o DenyListed[i] : i \in KeywordIndex}
    \cup {"revoke granẗ", "select 1 as granẗ", "call inserẗ",
          "DROP TABLE " \o Unparseable, "select " \o Unparseable \o " as updated",
          "select id from sales"}

KeywordTexts ==
    {a \o b \o c : a \in KeywordPads, b \in KeywordBodies, c \in KeywordPads}

InitKeywords ==
    /\ Constructed
    /\ tables = SalesLoaded
    /\ loadedTables = SalesLoaded
    /\ candidate \in KeywordTexts
    /\ file_paths = <<>>

NextKeywords == ValidateCandidate

SpecKeywords == InitKeywords /\ [][NextKeywords]_vars

(***************************************************************************)
(* The loader and the catalog on lists of up to MaxFiles files: files that *)
(* load, two pairs of files that derive the same table identifier, and a   *)
(* file that is not there.                                                 *)
(***************************************************************************)
LoadFiles ==
    {"data/sales.csv", "new/sales.csv", "up/2024 q1.csv", "up/2024-q1.csv",
     "data/gone.csv"}

\* What the text-generation collaborator returns to a call of
\* natural_language_to_sql.
CatalogRawTexts == {"^^^sql\nselect amount from sales\n^^^", GeneratorFails}

RECURSIVE ListsOf(_, _)
ListsOf(S, n) ==
    IF n = 0 THEN {<<>>}
    ELSE ListsOf(S, n - 1) \cup {Append(l, f) : l \in ListsOf(S, n - 1), f \in S}

InitLoad ==
    /\ Constructed
    /\ tables = <<>>
    /\ loadedTables = <<>>
    /\ candidate = ""
    /\ file_paths \in ListsOf(LoadFiles, MaxFiles)

\* The dashboard's "Load CSVs" (line 264), on the files it saved.
LoadFilePaths == LoadBegun(file_paths)

\* The tables and the limits get_table_sample is called on.
SampleTables == {"sales", "table_2024_q1", "nope"}

SampleLimits == {0, 2, DefaultLimit}

\* What get_table_sample returned, r.
SampleReturned(table_name, limit, r) ==
    /\ tables' = r.tables
    /\ last' = Call("get_table_sample", "", <<table_name, limit>>, r.df # -1,
                    NoReason, "none", <<>>, <<>>, r.ran, r.df, <<>>)

\* A call of get_table_sample (the dashboard makes it on line 299).
GetTableSample ==
    /\ pc = "ready"
    /\ Idle
    /\ \E table_name \in SampleTables, limit \in SampleLimits :
           SampleReturned(table_name, limit,
                          get_table_sample(table_name, limit, connOpen, tables))
    /\ UNCHANGED <<connVars, sessionVars, loadedTables, frame>>

\* A call of get_table_info.
GetTableInfo == \E table_name \in SampleTables : InfoBegun(table_name)

NextLoad ==
    \/ LoadFilePaths
    \/ LoadCreate
    \/ CountRows
    \/ DescribeTable
    \/ GetAllTables
    \/ GetTableInfo
    \/ NaturalLanguageToSql
    \/ \E raw \in CatalogRawTexts : GenerateText(raw)
    \/ Close
    \/ OtherConnection

SpecLoad == InitLoad /\ [][NextLoad]_vars

(***************************************************************************)
(* The operations of a handler before and after close(), on three lists of *)
(* files.                                                                  *)
(***************************************************************************)
HandlerLists ==
    {<<>>, <<"data/sales.csv", "up/2024 q1.csv">>, <<"up/locked.csv", "new/sales.csv">>}

HandlerTexts ==
    {"select amount from sales", "SELECT * FROM table_2024_q1 LIMIT 2",
     "select nope from sales", "copy sales from 'data/sales.csv'",
     "delete from sales", ""}

InitHandler ==
    /\ Constructed
    /\ tables = <<>>
    /\ loadedTables = <<>>
    /\ candidate = ""
    /\ file_paths \in HandlerLists

NextHandler ==
    \/ LoadFilePaths
    \/ LoadCreate
    \/ CountRows
    \/ DescribeTable
    \/ GetAllTables
    \/ GetTableSample
    \/ \E s \in HandlerTexts : ValidateSql(s)
    \/ \E s \in HandlerTexts : ExecuteSql(s)
    \/ ExecuteText
    \/ Close
    \/ OtherConnection

SpecHandler == InitHandler /\ [][NextHandler]_vars

(***************************************************************************)
(* The table identifier of a file name: names of up to MaxName characters  *)
(* that hold letters, a digit, the underscore, characters that are         *)
(* replaced, dots and path separators.                                     *)
(***************************************************************************)
NameChars == {"a", "Z", "7", "_", "-", " ", ".", "/"}

RECURSIVE FileNames(_)
FileNames(n) ==
    IF n = 0 THEN {""}
    ELSE FileNames(n - 1) \cup {f \o c : f \in FileNames(n - 1), c \in NameChars}

InitNames ==
    /\ Constructed
    /\ tables = <<>>
    /\ loadedTables = <<>>
    /\ candidate = ""
    /\ file_paths \in {<<f>> : f \in FileNames(MaxName)}

\* Lines 74-78 of load_csv_files, for the first file of the list.
DeriveTableName ==
    /\ pc = "ready"
    /\ Idle
    /\ file_paths # <<>>
    /\ last' = Call("table_name", "", file_paths[1], TRUE, NoReason, "none",
                    <<>>, <<>>, <<>>, -1, TableName(file_paths[1]))
    /\ UNCHANGED <<connVars, sessionVars, tables, loadedTables, frame>>

NextNames == DeriveTableName

SpecNames == InitNames /\ [][NextNames]_vars

(***************************************************************************)
(* The extraction of the SQL text from what the collaborator returns:      *)
(* texts with and without an opening fence, with and without a closing     *)
(* fence, with up to MaxPad whitespace characters around them, one of them *)
(* between a no-break space and a vertical tab, on a store of one table.   *)
(***************************************************************************)
FencedBodies ==
    {"select amount from sales", " select id from sales ",
     "select nope from sales", "DELETE FROM sales", "sql", ""}

GeneratedTexts ==
    {a \o o \o b \o c \o d :
        a \in Pads(MaxPad), o \in {"", FenceOpen, FenceOpen \o "\n"},
        b \in FencedBodies, c \in {"", FenceClose, "\n" \o FenceClose},
        d \in Pads(MaxPad)}

InitExtract ==
    /\ Constructed
    /\ tables = SalesLoaded
    /\ loadedTables = SalesLoaded
    /\ candidate \in GeneratedTexts
    /\ file_paths = <<>>

\* The collaborator returns candidate.
GenerateCandidate == GenerateText(candidate)

NextExtract ==
    \/ GenerateSql
    \/ CountRows
    \/ DescribeTable
    \/ GenerateCandidate
    \/ StoreGeneratedSql
    \/ ValidateGenerated
    \/ FlagGenerated
    \/ DrawExecuteSql
    \/ RunStopped
    \/ OtherConnection

SpecExtract == InitExtract /\ [][NextExtract]_vars

(***************************************************************************)
(* The script runs of the dashboard's SQL tab, on a store of one table.  A *)
(* button is true only in the script run its click starts, and a widget    *)
(* can be clicked only when the run before drew it.                        *)
(***************************************************************************)
InitDashboard ==
    /\ Constructed
    /\ tables = SalesLoaded
    /\ loadedTables = SalesLoaded
    /\ candidate = ""
    /\ file_paths = <<>>

\* The last script run drew the button "Execute SQL" (line 341): it
\* generated a text, validate_sql found it valid, and the run went on to
\* its end.
ExecuteButtonDrawn ==
    /\ last.op = "validate_sql"
    /\ last.origin = "generated"
    /\ last.ok

\* The script run a click on "Execute SQL" starts: st.button of line 320 is
\* false in it, the block of lines 321-361 is skipped and execute_sql is
\* not called.
PressExecuteSql ==
    /\ pc = "ready"
    /\ Idle
    /\ ExecuteButtonDrawn
    /\ last' = Call("script_run", "execute_generated_sql", generated_sql, TRUE,
                    NoReason, "none", <<>>, <<>>, <<>>, -1, <<>>)
    /\ UNCHANGED <<connVars, sessionVars, tables, loadedTables, frame>>

\* A script run that no click on a button of the tab starts (another widget
\* changed): the blocks of lines 247-284, 321-361 and 372-377 are skipped,
\* and the button "Execute SQL" is not drawn.
Rerun ==
    /\ pc = "ready"
    /\ Idle
    /\ last' = Call("script_run", "rerun", "", TRUE, NoReason, "none",
                    <<>>, <<>>, <<>>, -1, <<>>)
    /\ UNCHANGED <<connVars, sessionVars, tables, loadedTables, frame>>

NextDashboard ==
    \/ LoadCsvFiles
    \/ LoadCreate
    \/ CountRows
    \/ DescribeTable
    \/ GenerateSql
    \/ \E raw \in RawTexts \cup {GeneratorFails} : GenerateText(raw)
    \/ StoreGeneratedSql
    \/ ValidateGenerated
    \/ FlagGenerated
    \/ DrawExecuteSql
    \/ RunStopped
    \/ PressExecuteSql
    \/ Rerun
    \/ \E s \in SqlTexts : ManualSqlExecution(s)
    \/ ExecuteText
    \/ OtherConnection

SpecDashboard == InitDashboard /\ [][NextDashboard]_vars

(***************************************************************************)
(* Properties.                                                             *)
(***************************************************************************)
Range(f) == {f[i] : i \in 1..Len(f)}

\* The text holds nothing but whitespace.
WhitespaceOnly(s) == \A i \in 1..Len(s) : CharAt(s, i) \in Whitespace

\* The keywords of the documented list that occur in s, whatever the case.
Occurring(s) ==
    {i \in KeywordIndex : Contains(lower(DenyListed[i]), lower(s))}

\* The keywords of the list that occur in the upper-cased text.
InUpperCased(s) == {i \in KeywordIndex : Contains(DenyListed[i], upper(s))}

\* The engine plans the text on the store as it is.
PlansNow(s) == EngineExecute("EXPLAIN " \o s, connOpen, tables).ok

\* The step is a statement of another connection, not a step of the
\* handler.
OtherStep ==
    /\ frame' = IF Idle THEN frame ELSE [frame EXCEPT !.alone = FALSE]
    /\ ~last'.alone

\* The parser gives a statement for the text.
Parses(s) == ~WhitespaceOnly(s) /\ ~Raises(s)

ValidatorReasons ==
    {"Empty SQL query", "Dangerous operation detected: ", "SQL syntax error: "}

ChecksInOrder == <<"parse", "deny-list", "explain">>

\* C1: execute_sql hands a text to the engine for execution only when the
\* validation made inside that same call returned valid, whatever the origin
\* of the text; when that validation returned invalid, execute_sql returns
\* (False, None, reason of the validator) and the text is not handed over.
C1_ExecuteOnlyValidated ==
    last.op = "execute_sql" =>
        /\ last.checks # <<>>
        /\ (last.arg \in Range(last.engine) => last.verdict = "valid")
        /\ (last.verdict = "invalid" =>
                /\ ~last.ok
                /\ last.df = -1
                /\ last.reason.prefix \in ValidatorReasons
                /\ last.arg \notin Range(last.engine))

\* A text typed in the dashboard was refused by the validation inside
\* execute_sql.
C1_Witness ==
    /\ last.op = "execute_sql"
    /\ last.origin = "manual"
    /\ last.verdict = "invalid"
    /\ last.reason.prefix = "Dangerous operation detected: "
    /\ last.engine = <<>>

\* C2: a text that holds one of the twelve deny-listed keywords as a
\* case-insensitive substring, an identifier or a string literal included,
\* is never found valid, and neither validate_sql nor execute_sql hands
\* anything to the engine for it, the EXPLAIN dry run included.
C2_DenyListedNeverReachesEngine ==
    (last.op \in {"validate_sql", "execute_sql"} /\ Occurring(last.arg) # {}) =>
        /\ last.verdict = "invalid"
        /\ ~last.ok
        /\ last.engine = <<>>
        /\ last.ran = <<>>

\* execute_sql refused a text that holds CREATE inside an identifier.
C2_Witness ==
    /\ last.op = "execute_sql"
    /\ Contains("created_at", last.arg)
    /\ last.verdict = "invalid"
    /\ last.engine = <<>>

\* C3, as stated: for a text that holds deny-listed keywords, validate_sql
\* returns invalid and its reason identifies each keyword that occurs in the
\* text, EXECUTE included, also when several occur.
C3_EveryKeywordIdentified ==
    (last.op = "validate_sql" /\ Occurring(last.arg) # {}) =>
        /\ last.verdict = "invalid"
        /\ last.reason.prefix = "Dangerous operation detected: "
        /\ \A i \in Occurring(last.arg) : Contains(DenyListed[i], last.reason.detail)

\* C3, amended: a text whose upper-cased form holds deny-listed keywords,
\* as every text that holds one in whatever case does, is found invalid,
\* whatever the whitespace around it.  When the parser gives a statement
\* for it, the reason is "Dangerous operation detected: " and one keyword:
\* the first of the list, in the order of the list, that the upper-cased
\* text holds, which need not be a keyword the text itself holds, and is
\* never EXECUTE.  When the parser raises on it, the reason is "Validation
\* error: " and names no keyword.  Nothing is handed to the engine.
C3_OneOccurringKeywordNamed ==
    /\ Occurring(candidate) \subseteq InUpperCased(candidate)
    /\ (last.op = "validate_sql" /\ InUpperCased(last.arg) # {}) =>
           /\ last.verdict = "invalid"
           /\ last.engine = <<>>
           /\ IF Raises(last.arg)
              THEN /\ last.reason.prefix = "Validation error: "
                   /\ last.reason.detail \notin Range(DenyListed)
              ELSE /\ last.reason.prefix = "Dangerous operation detected: "
                   /\ last.reason.detail = DenyListed[Least(InUpperCased(last.arg))]
                   /\ \A i \in KeywordIndex :
                          DenyListed[i] = last.reason.detail =>
                              Contains(DenyListed[i], upper(last.arg))
                   /\ last.reason.detail # "EXECUTE"

\* A text that holds EXECUTE was refused with EXEC as the keyword named.
C3_Witness ==
    /\ last.op = "validate_sql"
    /\ Contains("execute", lower(last.arg))
    /\ last.verdict = "invalid"
    /\ last.reason.detail = "EXEC"

\* C4: for an empty or whitespace-only text validate_sql returns invalid
\* with the reason "Empty SQL query", and evaluates neither the deny-list
\* scan nor the dry run.
C4_BlankIsEmpty ==
    (last.op = "validate_sql" /\ WhitespaceOnly(last.arg)) =>
        /\ last.verdict = "invalid"
        /\ last.reason = [prefix |-> "Empty SQL query", detail |-> ""]
        /\ last.checks = <<"parse">>
        /\ last.engine = <<>>

\* A text of a blank and a line feed was refused as empty.
C4_Witness ==
    /\ last.op = "validate_sql"
    /\ last.arg = " \n"
    /\ last.reason.prefix = "Empty SQL query"

\* C5: validate_sql evaluates parseability, the deny-list scan (of the
\* upper-cased text) and the dry run in this order and stops at the first
\* that fails: the reason is that of the earliest failing check, no check is
\* evaluated after a failed one, and the verdict is valid exactly when all
\* three passed (the dry run being read on the store as the call left it, no
\* other connection having written since).
C5_OrderedShortCircuit ==
    last.op = "validate_sql" =>
        /\ last.checks # <<>>
        /\ last.checks = SubSeq(ChecksInOrder, 1, Len(last.checks))
        /\ WhitespaceOnly(last.arg) =>
               /\ last.reason.prefix = "Empty SQL query"
               /\ last.checks = <<"parse">>
        /\ Raises(last.arg) =>
               /\ last.reason.prefix = "Validation error: "
               /\ last.checks = <<"parse">>
               /\ last.engine = <<>>
        /\ (Parses(last.arg) /\ InUpperCased(last.arg) # {}) =>
               /\ last.reason.prefix = "Dangerous operation detected: "
               /\ last.checks = <<"parse", "deny-list">>
               /\ last.engine = <<>>
        /\ (Parses(last.arg) /\ InUpperCased(last.arg) = {}) =>
               /\ last.checks = ChecksInOrder
               /\ last.verdict = "invalid" => last.reason.prefix = "SQL syntax error: "
        /\ last.verdict = "valid" =>
               /\ Parses(last.arg)
               /\ InUpperCased(last.arg) = {}
               /\ last.checks = ChecksInOrder
        /\ (last.alone /\ Parses(last.arg) /\ InUpperCased(last.arg) = {}) =>
               (last.verdict = "valid" <=> PlansNow(last.arg))

\* A text that fails the scan, and that the engine would not plan either,
\* was refused for its keyword, the dry run not being evaluated.
C5_Witness ==
    /\ last.op = "validate_sql"
    /\ last.alone
    /\ InUpperCased(last.arg) # {}
    /\ ~PlansNow(last.arg)
    /\ last.reason.prefix = "Dangerous operation detected: "
    /\ last.checks = <<"parse", "deny-list">>

\* C6, as stated: whatever validate_sql and execute_sql were called on, the
\* tables of the store, their rows and their columns are those
\* load_csv_files last left.
C6_StoreAsLoaded == tables = loadedTables

\* C7: execute_sql acts on the validation it makes itself against the
\* store as it is when it is called: for a text the engine does not plan on
\* that store, it returns failure with an invalid verdict and does not hand
\* the text to the engine for execution, whatever verdict the dashboard
\* stored for it.
C7_RevalidatesOnCurrentStore ==
    [][/\ (frame.op = "none" /\ frame'.op = "execute_sql") =>
              /\ frame'.v.checks # <<>>
              /\ ~PlansNow(frame'.arg) => ~frame'.v.valid
       /\ (frame.op = "execute_sql" /\ frame'.op = "none" /\ ~frame.v.valid) =>
              /\ last'.op = "execute_sql"
              /\ last'.arg = frame.arg
              /\ last'.verdict = "invalid"
              /\ ~last'.ok
              /\ last'.reason = frame.v.reason
              /\ last'.arg \notin Range(last'.engine)]_vars

\* The generated text was stored as valid, the store changed, and
\* execute_sql, called on the same text typed in the dashboard, refused it
\* on its own validation.
C7_Witness ==
    /\ last.op = "execute_sql"
    /\ last.origin = "manual"
    /\ last.arg = generated_sql
    /\ generated_sql_valid
    /\ connOpen
    /\ ~last.ok
    /\ last.verdict = "invalid"
    /\ last.reason.prefix = "SQL syntax error: "
    /\ last.engine = <<"EXPLAIN " \o generated_sql>>

\* What duckdb.connect raises on a store another process holds.
LockMessages ==
    {"IO Error: Could not set lock on file",
     "IO Error: Conflicting lock is held by PID 7"}

\* The per-process store of the workspace directory.
FallbackName == "csv_workspace/workspace_" \o getpid \o ".duckdb"

PrimaryOpens == {i \in 1..Len(opens) : opens[i].path = PrimaryPath}

\* The first open and every retry so far failed on the lock.
ContendedThrough ==
    /\ opens # <<>>
    /\ \A i \in PrimaryOpens : opens[i].outcome \in LockMessages

\* C8: when the first open and every retry fail on the lock, the primary
\* store is opened six times, once and then in exactly 5 retries; the
\* fallback store workspace_<pid>.duckdb of the workspace directory is opened
\* next; and when that open succeeds db_path is that path and the
\* constructor returns a handler with a connection, without raising.
C8_FiveRetriesThenFallback ==
    (ContendedThrough /\ pc \in {"fallback", "ready", "failed"}) =>
        /\ Cardinality(PrimaryOpens) = 6
        /\ PrimaryOpens = 1..6
        /\ pc # "fallback" => (Len(opens) = 7 /\ opens[7].path = FallbackName)
        /\ pc = "ready" =>
               /\ opens[7].outcome = OpenOk
               /\ db_path = FallbackName
               /\ conn = FallbackName
               /\ connOpen \/ releases > 0
               /\ ~raised

\* The lock was held through the first open and the five retries, and the
\* handler works on the fallback store.
C8_Witness ==
    /\ ContendedThrough
    /\ pc = "ready"
    /\ Len(opens) = 7
    /\ connOpen
    /\ db_path = FallbackName

\* C9, as stated: when the first open fails with an error that is no lock
\* signature, nothing else is opened, neither in a retry nor as a fallback,
\* no connection is made and db_path keeps the primary path.
C9_OtherFailureOpensNothing ==
    (opens # <<>> /\ opens[1].outcome \notin LockMessages \cup {OpenOk}) =>
        /\ Len(opens) = 1
        /\ conn = None
        /\ db_path = PrimaryPath

\* C10, as stated: however often close() is called, the engine handle is
\* released at most once.
C10_ReleasedAtMostOnce == releases <= 1

\* The elements of l at the positions of S, in the order of l.
Kept(l, S) ==
    LET idx == SelectSeq([i \in 1..Len(l) |-> i], LAMBDA i : i \in S)
    IN  [k \in 1..Len(idx) |-> l[idx[k]]]

\* The positions of the files of l that load when they are loaded alone.
LoadingAlone(l) ==
    {i \in 1..Len(l) : load_csv_files(<<l[i]>>, connOpen, <<>>).result.success_count = 1}

\* C11: load_csv_files treats every file of its list on its own: a file
\* that loads alone is loaded wherever it stands in the list, also after
\* files that failed; every file gives one entry, in loaded_tables or in
\* errors, each in the order of the list; success_count and error_count are
\* the lengths of the two and add up to the length of the list.
C11_EveryFileOneEntry ==
    last.op = "load_csv_files" =>
        /\ [i \in 1..Len(last.result.loaded_tables) |->
                last.result.loaded_tables[i].file_path]
               = Kept(last.arg, LoadingAlone(last.arg))
        /\ [i \in 1..Len(last.result.errors) |-> last.result.errors[i].file]
               = Kept(last.arg, (1..Len(last.arg)) \ LoadingAlone(last.arg))
        /\ last.result.success_count = Len(last.result.loaded_tables)
        /\ last.result.error_count = Len(last.result.errors)
        /\ last.result.success_count + last.result.error_count = Len(last.arg)

\* A file that is not there stood before a file that loads: one error, and
\* the second file loaded.
C11_Witness ==
    /\ last.op = "load_csv_files"
    /\ last.arg = <<"data/gone.csv", "data/sales.csv">>
    /\ last.result.error_count = 1
    /\ last.result.success_count = 1
    /\ last.result.loaded_tables[1].file_path = "data/sales.csv"
    /\ "sales" \in DOMAIN tables

\* The positions of the entries of loaded_tables that no later entry of the
\* same table identifier follows.
LastLoads(loaded) ==
    {i \in 1..Len(loaded) :
         \A j \in (i + 1)..Len(loaded) :
             lower(loaded[j].table_name) # lower(loaded[i].table_name)}

\* No other connection ran a statement during the call that last holds, nor
\* since it returned.
LoadedAlone == last.alone

\* The CREATE statement of the pass in progress succeeds: the handler is
\* open and the file can be read.
CreateSucceeds == connOpen /\ Readable(frame.arg[frame.i])

\* C12: the store holds one table for an identifier, whatever is loaded.
\* The CREATE OR REPLACE of a pass of load_csv_files that succeeds leaves
\* the tables the store held and the table of the identifier of the file,
\* with the columns and the rows of the file, whether or not the identifier
\* was there before (the same file again, or another file of the same
\* identifier), and leaves every other table as it was; one that fails
\* leaves the store as it was.  After a load_csv_files during which no
\* other connection wrote, the table of an identifier has the columns and
\* the rows of the file loaded last for it; rows are never appended.
C12_OneTablePerIdentifier ==
    /\ []((last.op = "load_csv_files" /\ LoadedAlone) =>
             \A i \in LastLoads(last.result.loaded_tables) :
                 /\ lower(last.result.loaded_tables[i].table_name) \in DOMAIN tables
                 /\ tables[lower(last.result.loaded_tables[i].table_name)].columns
                        = Disk[last.result.loaded_tables[i].file_path].columns
                 /\ tables[lower(last.result.loaded_tables[i].table_name)].row_count
                        = Disk[last.result.loaded_tables[i].file_path].rows)
    /\ [][(/\ frame.op = "load_csv_files"
            /\ frame.at = "create"
            /\ ~OtherStep) =>
              IF CreateSucceeds
              THEN /\ frame'.at = "count"
                   /\ DOMAIN tables'
                          = DOMAIN tables \cup {lower(TableName(frame.arg[frame.i]))}
                   /\ tables'[lower(TableName(frame.arg[frame.i]))].columns
                          = Disk[frame.arg[frame.i]].columns
                   /\ tables'[lower(TableName(frame.arg[frame.i]))].row_count
                          = Disk[frame.arg[frame.i]].rows
                   /\ \A t \in DOMAIN tables \ {lower(TableName(frame.arg[frame.i]))} :
                          tables'[t] = tables[t]
              ELSE tables' = tables]_vars

\* Two files of the identifier sales were loaded, a second time: the store
\* holds one table, with the column and the two rows of the second file.
C12_Witness ==
    /\ last.op = "load_csv_files"
    /\ last.arg = <<"data/sales.csv", "new/sales.csv">>
    /\ LoadedAlone
    /\ loadedTables # <<>>
    /\ last.result.success_count = 2
    /\ DOMAIN tables = {"sales"}
    /\ tables["sales"].columns = SchemaB
    /\ tables["sales"].row_count = 2

\* The base name of a file without its extension, disallowed characters
\* replaced.
Replaced(csv_file) == re_sub(splitext_root(basename(csv_file)))

\* C13: the table identifier derived from a file name is not empty, holds
\* only ASCII letters, digits and the underscore, and does not start with a
\* digit; it is "table_" followed by the base name after replacement when
\* that is empty or starts with a digit, and that base name otherwise.
C13_IdentifierWellFormed ==
    last.op = "table_name" =>
        /\ last.result # ""
        /\ \A i \in 1..Len(last.result) :
               CharAt(last.result, i) \in Letters \cup Digits \cup {"_"}
        /\ CharAt(last.result, 1) \notin Digits
        /\ last.result =
               IF Replaced(last.arg) = "" \/ CharAt(Replaced(last.arg), 1) \in Digits
               THEN "table_" \o Replaced(last.arg)
               ELSE Replaced(last.arg)

\* A path that ends in a separator has an empty base name: the identifier
\* is the bare prefix.
C13_Witness ==
    /\ last.op = "table_name"
    /\ last.arg = "a/"
    /\ last.result = "table_"

\* C14: the replacement of disallowed characters followed by the prefix
\* rule, applied to an identifier load_csv_files derived, gives that
\* identifier back.
C14_SanitizationIdempotent ==
    last.op = "table_name" => Prefixed(re_sub(last.result)) = last.result

\* An identifier that got both a replaced character and the prefix.
C14_Witness ==
    /\ last.op = "table_name"
    /\ last.arg = "7-a"
    /\ last.result = "table_7_a"
    /\ Prefixed(re_sub("table_7_a")) = "table_7_a"

\* The entries of the catalog for the table identifier id.
CatalogEntries(id) ==
    SelectSeq(get_all_tables(connOpen, tables),
              LAMBDA e : lower(e.table_name) = lower(id))

\* C15: for every file load_csv_files loaded, no other connection writing
\* during the call, the entry of loaded_tables reports the columns of the
\* file, in the order of the file, and its number of data rows; right after
\* the call get_table_info and get_all_tables report the same for the
\* identifier, for the file loaded last for it.
C15_LoadedAsInFile ==
    (last.op = "load_csv_files" /\ LoadedAlone) =>
        /\ \A i \in 1..Len(last.result.loaded_tables) :
               /\ last.result.loaded_tables[i].table_name
                      = TableName(last.result.loaded_tables[i].file_path)
               /\ last.result.loaded_tables[i].columns
                      = Disk[last.result.loaded_tables[i].file_path].columns
               /\ last.result.loaded_tables[i].row_count
                      = Disk[last.result.loaded_tables[i].file_path].rows
        /\ \A i \in LastLoads(last.result.loaded_tables) :
               /\ get_table_info(last.result.loaded_tables[i].table_name, connOpen, tables)
                      = [row_count |-> Disk[last.result.loaded_tables[i].file_path].rows,
                         columns   |-> Disk[last.result.loaded_tables[i].file_path].columns]
               /\ CatalogEntries(last.result.loaded_tables[i].table_name)
                      = <<[table_name |-> last.result.loaded_tables[i].table_name,
                           row_count  |-> Disk[last.result.loaded_tables[i].file_path].rows,
                           columns    |-> Disk[last.result.loaded_tables[i].file_path].columns]>>

\* A file of one column and three rows was loaded after a file that is not
\* there: the entry returned and the catalog report one column, three rows.
C15_Witness ==
    /\ last.op = "load_csv_files"
    /\ last.arg = <<"data/gone.csv", "up/2024 q1.csv">>
    /\ LoadedAlone
    /\ Len(last.result.loaded_tables) = 1
    /\ last.result.loaded_tables[1].row_count = 3
    /\ Len(last.result.loaded_tables[1].columns) = 1
    /\ get_all_tables(connOpen, tables)
           = <<[table_name |-> "table_2024_q1", row_count |-> 3, columns |-> SchemaB]>>

\* The entries of the catalog read in progress after the step.
EntriesAfter == IF frame'.op = "none" THEN last'.result.entries ELSE frame'.entries

\* The engine fails on a statement about the table of the pass.
FrameTableFails == ~connOpen \/ lower(FrameTable) \notin DOMAIN tables

\* What get_table_info gives to the call in progress in the step: for a
\* call of get_table_info what it returns, for get_all_tables what the
\* entry of the pass holds.
InfoAfter ==
    IF frame.op = "get_table_info"
    THEN last'.result
    ELSE [row_count |-> EntriesAfter[frame.i].row_count,
          columns   |-> EntriesAfter[frame.i].columns]

    /\ "sales" \in DOMAIN tables
    /\ tables["sales"].row_count > 0
    /\ last.result = [row_count |-> 0, columns |-> <<>>]

\* The step is the return of a call of natural_language_to_sql.
GenerationReturns ==
    /\ frame.op = "natural_language_to_sql"
    /\ frame.origin = "call"
    /\ frame'.op = "none"

\* C17: a call of natural_language_to_sql on an empty catalog fails with
\* "No tables available for querying" and does not call the text-generation
\* collaborator; on a catalog that is not empty it calls the collaborator
\* once, with one message, of role user, whether the collaborator fails or
\* not.
C17_GeneratorCalledOnlyWithTables ==
    [][GenerationReturns =>
           /\ last'.op = "natural_language_to_sql"
           /\ frame.alone => frame.entries = get_all_tables(connOpen, tables)
           /\ IF frame.entries = <<>>
              THEN /\ ~last'.ok
                   /\ last'.reason.detail = "No tables available for querying"
                   /\ last'.result.generator_calls = 0
                   /\ last'.result.messages = <<>>
              ELSE /\ last'.result.generator_calls = 1
                   /\ last'.result.messages = <<"user">>
                   /\ last'.ok <=> last'.arg # GeneratorFails]_vars

\* A text was asked for on a store without tables: no call of the
\* collaborator.
C17_Witness ==
    /\ last.op = "natural_language_to_sql"
    /\ last.origin = "call"
    /\ last.alone
    /\ connOpen
    /\ tables = <<>>
    /\ last.arg # GeneratorFails
    /\ ~last.ok
    /\ last.result.generator_calls = 0

\* C18, as stated: validate_sql returns (True, None) or (False, message),
\* execute_sql returns (True, result, None) or (False, None, message), and a
\* call that returns a failure leaves the connection, db_path and the store
\* as they were, in every step of its own.
C18_FailedCallChangesNothing ==
    [][/\ (last'.op = "validate_sql" /\ last'.alone) =>
              /\ last'.ok => last'.reason = NoReason
              /\ ~last'.ok =>
                     /\ last'.reason # NoReason
                     /\ UNCHANGED <<conn, connOpen, db_path, tables>>
       /\ (frame.op = "none" /\ frame'.op = "execute_sql" /\ ~frame'.v.valid) =>
              UNCHANGED <<conn, connOpen, db_path, tables>>
       /\ (frame.op = "execute_sql" /\ frame'.op = "none") =>
              /\ last'.ok => (last'.reason = NoReason /\ last'.df # -1)
              /\ ~last'.ok =>
                     /\ last'.reason # NoReason
                     /\ last'.df = -1
                     /\ UNCHANGED <<conn, connOpen, db_path, tables>>]_vars

\* C19, as stated: no operation of the handler lets an exception escape,
\* natural_language_to_sql on an empty catalog or with a failing
\* collaborator included.
C19_NoExceptionEscapes ==
    last.op \in {"load_csv_files", "get_all_tables", "natural_language_to_sql"} =>
        /\ last.ok
        /\ last.op = "natural_language_to_sql" => ~last.result.raised

\* C19, amended: load_csv_files and get_all_tables return a value whatever
\* fails inside them; natural_language_to_sql returns the generated text
\* when the catalog is not empty and the collaborator answers, and lets an
\* exception escape otherwise: "No tables available for querying" on an
\* empty catalog, the exception of the collaborator when that fails.
C19_GenerationRaisesOthersReturn ==
    [][/\ last'.op \in {"load_csv_files", "get_all_tables"} => last'.ok
       /\ GenerationReturns =>
              /\ last'.op = "natural_language_to_sql"
              /\ last'.result.raised <=>
                     \/ frame.entries = <<>>
                     \/ last'.arg = GeneratorFails
              /\ last'.ok <=> ~last'.result.raised
              /\ last'.result.raised =>
                     /\ last'.result.sql_query = ""
                     /\ last'.reason.detail =
                            IF frame.entries = <<>>
                            THEN "No tables available for querying"
                            ELSE GeneratorFails
              /\ ~last'.result.raised => last'.result.sql_query = Extract(last'.arg)
              /\ frame.alone =>
                     /\ last'.result.raised
                            = natural_language_to_sql(last'.arg, connOpen, tables).raised
                     /\ last'.result.sql_query
                            = natural_language_to_sql(last'.arg, connOpen, tables).sql_query]_vars

\* The collaborator failed on a catalog of one table: its exception left
\* natural_language_to_sql.
C19_Witness ==
    /\ last.op = "natural_language_to_sql"
    /\ last.origin = "call"
    /\ last.arg = GeneratorFails
    /\ last.alone
    /\ get_all_tables(connOpen, tables) # <<>>
    /\ last.result.raised
    /\ last.result.generator_calls = 1
    /\ last.reason.detail = GeneratorFails

\* C20, as stated: every invalid result of validate_sql has one of three
\* reasons: the empty text, a dangerous keyword, or a syntax error.
C20_ThreeReasonKinds ==
    (last.op = "validate_sql" /\ ~last.ok) =>
        last.reason.prefix \in
            {"Empty SQL query", "Dangerous operation detected: ", "SQL syntax error: "}

\* s without n characters at its start.
DropFirst(s, n) == SubSeq(s, n + 1, Len(s))

\* s without n characters at its end.
DropLast(s, n) == SubSeq(s, 1, Len(s) - n)

\* What is left of the trimmed text t once the opening fence it begins with
\* is removed.
Unopened(t) == IF startswith(t, "^^^sql") THEN DropFirst(t, 6) ELSE t

\* The dashboard's run in progress holds the text natural_language_to_sql
\* returned for candidate.
TextReturned ==
    /\ frame.origin = "generated"
    /\ frame.at \in {"store", "validate", "flag", "button"}

\* The generated text is S between the fences, each on a line of its own.
FencedAround(S) ==
    \E a \in Pads(MaxPad), d \in Pads(MaxPad) :
        candidate = a \o "^^^sql" \o "\n" \o S \o "\n" \o "^^^" \o d

\* The generated text is S without fences.
BareAround(S) ==
    \E a \in Pads(MaxPad), d \in Pads(MaxPad) : candidate = a \o S \o d

\* C22: get_table_sample on a table of the store returns a sample and not
\* None: as many rows as the table has when the limit is not smaller, limit
\* rows otherwise; when the engine fails, on a table that is not there or
\* on a closed connection, it returns None (the store read as the call left
\* it, no other connection having written since).
C22_SampleBoundedByLimit ==
    (last.op = "get_table_sample" /\ last.alone) =>
        IF connOpen /\ lower(last.arg[1]) \in DOMAIN tables
        THEN /\ last.df # -1
             /\ last.df <= last.arg[2]
             /\ last.df <= tables[lower(last.arg[1])].row_count
             /\ \/ last.df = last.arg[2]
                \/ last.df = tables[lower(last.arg[1])].row_count
        ELSE last.df = -1 /\ ~last.ok

\* A sample of five rows was asked of a table of three rows: three rows.
C22_Witness ==
    /\ last.op = "get_table_sample"
    /\ last.alone
    /\ last.arg = <<"table_2024_q1", 5>>
    /\ connOpen
    /\ "table_2024_q1" \in DOMAIN tables
    /\ tables["table_2024_q1"].row_count = 3
    /\ last.df = 3

\* The retries made so far.
Retries == Cardinality(PrimaryOpens) - 1

\* C23: the primary store is opened at most six times, the first open and
\* at most 5 retries, and retries are made only after a first open that
\* failed on the lock; the wait before retry n is n units of 0.5 s, so the
\* time slept after r retries is 1 + ... + r units, 15 when all five
\* failed; and _connect_db ends, with a connection on the primary store, on
\* the fallback store, or with the error of the fallback open.
C23_BoundedLinearBackoff ==
    /\ [](opens # <<>> =>
            /\ Retries \in 0..5
            /\ Len(opens) <= 7
            /\ Retries > 0 => opens[1].outcome \in LockMessages
            /\ pc = "retrying" => attempt = Retries + 1
            /\ 2 * sleepUnits = Retries * (Retries + 1)
            /\ (Retries = 5 /\ opens[6].outcome # OpenOk) => sleepUnits = 15)
    /\ <>(pc \in {"ready", "failed"})

\* The lock was held through the first open and five retries: fifteen
\* units were slept, and the fallback store was opened.
C23_Witness ==
    /\ Cardinality(PrimaryOpens) = 6
    /\ opens[6].outcome \in LockMessages
    /\ sleepUnits = 15
    /\ Len(opens) = 7
    /\ pc \in {"ready", "failed"}

\* C24, as stated: for a text that passed the parser and the deny-list scan,
\* validate_sql asks the engine for a plan only: no statement of the text
\* is run, a text of several statements included, and the call leaves the
\* store as it was.
C24_DryRunPlansOnly ==
    [][(last'.op = "validate_sql" /\ last'.alone /\ last'.engine # <<>>) =>
           /\ last'.ran = <<>>
           /\ tables' = tables]_vars

\* C25, as stated: a generated text that validate_sql accepted can be
\* executed from the dashboard: the script run a click on "Execute SQL"
\* starts calls execute_sql on the stored generated text; a text that was
\* refused is not executed.
C25_ExecuteButtonExecutes ==
    /\ last.origin = "execute_generated_sql" =>
           /\ last.op = "execute_sql"
           /\ last.arg = generated_sql
    /\ (last.op = "execute_sql" /\ last.origin = "generated") => generated_sql_valid

\* Retry k of the primary store succeeded after a lock failure of the first
\* open.
RetrySucceeded(k) ==
    /\ Len(opens) >= k + 1
    /\ opens[1].outcome \in LockMessages
    /\ opens[k + 1].path = PrimaryPath
    /\ opens[k + 1].outcome = OpenOk

\* C26: if, after a lock failure of the first open, retry k (1 <= k <= 5) of
\* the primary store succeeds, the handler is connected to the primary store,
\* that open is the last one ever made (no further retry, no fallback store),
\* nothing is raised and db_path still names the primary store file.
C26_RetrySuccessEndsConstruction ==
    \A k \in 1..LastAttempt :
        RetrySucceeded(k) =>
            /\ Len(opens) = k + 1
            /\ \A i \in 1..Len(opens) : opens[i].path = PrimaryPath
            /\ pc = "ready"
            /\ conn = PrimaryPath
            /\ db_path = PrimaryPath
            /\ ~raised

C26_Witness ==
    /\ RetrySucceeded(3)
    /\ conn = PrimaryPath
    /\ sleepUnits = 6

\* The fallback's open failed: the last open is of the per-process store and
\* returned an error.
FallbackFailed ==
    /\ opens[Len(opens)].path = pid_db_path
    /\ opens[Len(opens)].outcome # OpenOk

\* C27: whenever the first open failed on the lock, the constructor raises
\* exactly when the open of the fallback store failed, which happens only
\* after the 5 retries all failed; the error raised is the fallback's open
\* error, conn stays unset and db_path keeps the primary path.
C27_RaisesOnlyFallbackError ==
    (opens # <<>> /\ opens[1].outcome \in LockMessages) =>
        /\ raised <=> FallbackFailed
        /\ raised =>
            /\ Retries = LastAttempt
            /\ \A i \in PrimaryOpens : opens[i].outcome # OpenOk
            /\ conn = None
            /\ db_path = PrimaryPath
            /\ last.op = "duckdb.connect" =>
                   last.result = <<opens[Len(opens)].outcome>>

C27_Witness ==
    /\ raised
    /\ opens[1].outcome \in LockMessages
    /\ last.op = "duckdb.connect"
    /\ last.result # <<opens[1].outcome>>
    /\ conn = None

\* C29: in every state in which the handler holds a connection, db_path names
\* the store that connection was opened on, which is the store of the last
\* open made and that open succeeded: the primary path after a primary open,
\* the per-process path after a fallback open; db_path differs from the
\* primary path only once the fallback open has succeeded.
C29_PathNamesConnectedStore ==
    /\ conn # None =>
        /\ db_path = conn
        /\ opens[Len(opens)] = [path |-> conn, outcome |-> OpenOk]
        /\ conn \in {PrimaryPath, pid_db_path}
    /\ db_path # PrimaryPath =>
        /\ db_path = pid_db_path
        /\ conn = pid_db_path
        /\ opens[Len(opens)] = [path |-> pid_db_path, outcome |-> OpenOk]

C29_Witness ==
    /\ conn = pid_db_path
    /\ db_path = pid_db_path
    /\ opens[1].path = PrimaryPath

\* C28: when a text contains one or more deny-listed keywords, the keyword
\* named in validate_sql's reason is the one of them that comes first in the
\* order of the list DROP, DELETE, ..., REVOKE, wherever the keywords stand
\* in the text; it occurs in the upper-cased text.
C28_FirstInListOrderNamed ==
    (last.op = "validate_sql" /\ InUpperCased(last.arg) # {}) =>
        /\ last.reason.detail = DenyListed[Least(InUpperCased(last.arg))]
        /\ Contains(last.reason.detail, upper(last.arg))

\* A text where DELETE stands before DROP was refused naming DROP.
C28_Witness ==
    /\ last.op = "validate_sql"
    /\ Contains("DELETE DROP", last.arg)
    /\ last.reason.detail = "DROP"

\* What an operation gave on a handler after close(): a failure value, with
\* nothing executed.
FailureValue(c) ==
    /\ c.ran = <<>>
    /\ c.op = "validate_sql" => (c.verdict = "invalid" /\ c.reason.prefix # None)
    /\ c.op = "execute_sql" =>
           (~c.ok /\ c.df = -1 /\ c.reason.prefix # None /\ c.verdict = "invalid")
    /\ c.op = "load_csv_files" =>
           /\ c.result.loaded_tables = <<>>
           /\ Len(c.result.errors) = Len(c.arg)
           /\ c.result.success_count = 0
    /\ c.op = "get_all_tables" => c.result.entries = <<>>
    /\ c.op = "get_table_sample" => c.df = -1

\* C30: after close(), every operation on the handler returns its failure
\* value and executes nothing: execute_sql gives (False, None, message),
\* validate_sql gives (False, message) for every text, load_csv_files gives
\* one error per input file and no table, get_all_tables gives the empty
\* list and get_table_sample gives None; the handler leaves the store as it
\* is (the store changes only by the statements of other connections), and
\* conn stays set on the store it was opened on.
C30_ClosedHandlerFails ==
    [][releases > 0 =>
          /\ FailureValue(last')
          /\ OtherStep \/ tables' = tables
          /\ conn' = conn
          /\ conn # None]_vars

\* After close(), load_csv_files on two files gave two errors, on a store
\* that holds tables.
C30_Witness ==
    /\ releases > 0
    /\ conn = PrimaryPath
    /\ DOMAIN tables # {}
    /\ last.op = "load_csv_files"
    /\ Len(last.arg) = 2
    /\ Len(last.result.errors) = 2

====
